---- MODULE Spec2Model ----
(***************************************************************************)
(* Dermi Hugging Face proxy: the per-client rate limiter, the multi-model  *)
(* dispatch (callHuggingFaceAPI) with retry, backoff and failover, and the *)
(* background service recovery (attemptServiceRecovery).                   *)
(*                                                                         *)
(* Two catalog variants of the server are modelled: "mistral"              *)
(* (src/unnamed/part_000) and "opt" (src/server.js, lines 426-943).  They  *)
(* differ in the MODELS list, in how often a busy model is retried and in  *)
(* the connectivity fallback text.                                         *)
(*                                                                         *)
(* Node runs one callback at a time: an action is the code that runs from  *)
(* one await to the next.                                                  *)
(***************************************************************************)
EXTENDS Integers, Sequences, FiniteSets, TLC

\* ------------------------------------------------------------- bounds
\* Failure responses are only delivered while consecutiveFailures is below this.
MaxFailures == 6
\* Number of recovery sweeps that can be in flight at once in the model.
MaxProbes == 2
\* Number of 5-minute recovery timers that can be pending at once in the model.
MaxTimers == 2
\* Clock ticks of the rate limiter scenario.
MaxTicks == 4
\* Requests one client sends inside one window in the rate limiter scenario.
MaxCount == 12

\* ------------------------------------------------- program constants
MAX_CONSECUTIVE_FAILURES == 5
RATE_LIMIT_WINDOW == 60000
RATE_LIMIT == 10
\* attemptServiceRecovery: `serviceRecoveryAttempts > 3`
RecoveryCap == 3
\* attemptServiceRecovery: the pause before recovery is tried again (ms)
RecoveryCooldown == 300000
\* wait(): baseDelay and maxDelay (ms)
baseDelay == 2000
maxDelay == 30000

Variants == {"mistral", "opt"}

MODELS(v) ==
    IF v = "mistral"
    THEN << "mistralai/Mistral-7B-Instruct-v0.1", "microsoft/phi-2",
            "facebook/opt-1.3b", "facebook/opt-350m", "google/flan-t5-small" >>
    ELSE << "facebook/opt-350m", "google/flan-t5-small", "microsoft/phi-2",
            "distilbert/distilbert-base-uncased" >>

\* process.env.PRIMARY_MODEL || <first model>, with PRIMARY_MODEL unset
InitialModel(v) == MODELS(v)[1]

\* `if (attemptNumber < 2)` in part_000, `if (attemptNumber < 3)` in server.js
RetryCap(v) == IF v = "mistral" THEN 2 ELSE 3

MissingKeyError == "Server configuration error: Missing API key"
AllFailedError == "All models failed, unable to process request"

ShortFallbackText ==
    "I'm here to help with skin health questions. Could you please ask about a specific skin condition or how to use the Dermi app?"

ConnectivityFallbackText(v) ==
    IF v = "mistral"
    THEN "I'm having trouble connecting to my knowledge base, but I'm here to help with skin health questions. Could you try asking in a different way?"
    ELSE "I'm having trouble connecting to my knowledge base, but I'm here to help with skin health questions. Could you try again in a few moments?"

\* Stands for a model answer that passed extractModelResponse and the length check.
GeneratedText == "<generated text>"

\* Math.pow(2, n)
RECURSIVE Pow2(_)
Pow2(n) == IF n = 0 THEN 1 ELSE 2 * Pow2(n - 1)

Min(a, b) == IF a < b THEN a ELSE b

\* wait(attemptNumber): the delay it sleeps for
wait(attemptNumber) == Min(baseDelay * Pow2(attemptNumber), maxDelay)

VARIABLES
    variant,                  \* which server variant runs
    apiKey,                   \* TRUE iff process.env.HUGGINGFACE_API_KEY is set
    consecutiveFailures,
    serviceRecoveryAttempts,
    CURRENT_MODEL,
    modelSuccessfullyLoaded,
    sweeps,                   \* the runs of attemptServiceRecovery's loop
    lastSweep,                \* how the sweep that ended last ended
    timers,                   \* pending 5-minute recovery timers
    callers,                  \* the request handlers of the scenario
    audit,                    \* TRUE iff the scenario counts the POSTs of a dispatch
    call,                     \* per handler: the callHuggingFaceAPI recursion
    requestCounts,            \* the rate limiter's table, ip -> {count, resetTime}
    now,                      \* Date.now(), in ms since the server started
    decision,                 \* per client: what rateLimiter did with its last request
    previous,                 \* per client: what it did with the request before that
    nth,                      \* per client: the position of its last request in its window
    windowEnd,                \* per client: the reset time of the window of its last request
    text                      \* the answer of a model on its way through extraction

\* The rate limiter's state, and the state of dispatch and recovery.
limiterVars == << requestCounts, now, decision, previous, nth, windowEnd >>

dispatchVars == << variant, apiKey, consecutiveFailures, serviceRecoveryAttempts,
                   CURRENT_MODEL, modelSuccessfullyLoaded, sweeps, lastSweep, timers,
                   callers, audit, call >>

vars == << dispatchVars, limiterVars, text >>

\* The `inputs` field of a request body: absent, or a text of len characters.
NoInputs == [given |-> FALSE, string |-> FALSE, truthy |-> FALSE, len |-> 0]

NoResp == [status |-> 0, generated_text |-> "", model_used |-> ""]

\* A handler that has not started a request.
IdleCall ==
    [pc |-> "idle", modelIndex |-> 0, attemptNumber |-> 0, attempts |-> 0,
     err |-> "", delay |-> 0, lastBusy |-> 0, thrown |-> "", resp |-> NoResp,
     route |-> "generate", report |-> "", inputs |-> NoInputs, error |-> ""]

\* ------------------------------------------------ service recovery
\* sweeps[k] is the number of runs of attemptServiceRecovery's loop that await
\* the answer of MODELS[k].  The sum over a bag of sweeps:
RECURSIVE SumTo(_, _)
SumTo(sw, k) == IF k = 0 THEN 0 ELSE sw[k] + SumTo(sw, k - 1)

InFlight(sw) == SumTo(sw, Len(sw))

\* The loop of attemptServiceRecovery starts: the POST to the first model is sent.
StartSweep(sw) == [sw EXCEPT ![1] = @ + 1]

\* attemptServiceRecovery with the test `serviceRecoveryAttempts > 4`.
attemptServiceRecoveryLateCap(sra, sw, tm) ==
    IF sra > RecoveryCap + 1
    THEN [sra |-> sra, sw |-> sw, tm |-> tm + 1]
    ELSE [sra |-> sra + 1, sw |-> StartSweep(sw), tm |-> tm]

\* attemptServiceRecovery that sets the counter to 0 when it sets the timer.
attemptServiceRecoveryResets(sra, sw, tm) ==
    IF sra > RecoveryCap
    THEN [sra |-> 0, sw |-> sw, tm |-> tm + 1]
    ELSE [sra |-> sra + 1, sw |-> StartSweep(sw), tm |-> tm]

\* attemptServiceRecovery(), up to its first await: what it does to
\* serviceRecoveryAttempts, to the sweeps in flight and to the pending timers.
attemptServiceRecovery(sra, sw, tm) ==
    IF sra > RecoveryCap
    THEN [sra |-> sra, sw |-> sw, tm |-> tm + 1]
    ELSE [sra |-> sra + 1, sw |-> StartSweep(sw), tm |-> tm]

\* The model has room for what attemptServiceRecovery would start.
HasRoom(sra, sw, tm) ==
    IF sra > RecoveryCap
    THEN tm < MaxTimers
    ELSE InFlight(sw) < MaxProbes

\* What an awaited axios.post of the recovery loop can do.
ProbeOutcomes == {"ok200", "ok_other", "error"}

\* ProbeSettles whose loop ends at the first health check that fails.
ProbeSettlesGivesUp(k, r) ==
    /\ sweeps[k] > 0
    /\ IF r = "ok200"
       THEN /\ CURRENT_MODEL' = MODELS(variant)[k]
            /\ modelSuccessfullyLoaded' = TRUE
            /\ consecutiveFailures' = 0
            /\ serviceRecoveryAttempts' = 0
            /\ lastSweep' = "recovered"
       ELSE /\ lastSweep' = "failed"
            /\ UNCHANGED << CURRENT_MODEL, modelSuccessfullyLoaded,
                            consecutiveFailures, serviceRecoveryAttempts >>
    /\ sweeps' = [sweeps EXCEPT ![k] = @ - 1]
    /\ UNCHANGED << variant, apiKey, timers, callers, audit, call, limiterVars, text >>

\* ProbeSettles without the `return true`: after a 200 the loop goes on to the next model.
ProbeSettlesKeepsGoing(k, r) ==
    /\ sweeps[k] > 0
    /\ IF r = "ok200"
       THEN /\ CURRENT_MODEL' = MODELS(variant)[k]
            /\ modelSuccessfullyLoaded' = TRUE
            /\ consecutiveFailures' = 0
            /\ serviceRecoveryAttempts' = 0
            /\ lastSweep' = "recovered"
       ELSE /\ lastSweep' = IF k < Len(MODELS(variant)) THEN lastSweep ELSE "failed"
            /\ UNCHANGED << CURRENT_MODEL, modelSuccessfullyLoaded,
                            consecutiveFailures, serviceRecoveryAttempts >>
    /\ sweeps' = IF k < Len(MODELS(variant))
                 THEN [sweeps EXCEPT ![k] = @ - 1, ![k + 1] = @ + 1]
                 ELSE [sweeps EXCEPT ![k] = @ - 1]
    /\ UNCHANGED << variant, apiKey, timers, callers, audit, call, limiterVars, text >>

\* The awaited health check of MODELS[k] of one sweep settles with outcome r.
ProbeSettles(k, r) ==
    /\ sweeps[k] > 0
    /\ IF r = "ok200"
       THEN /\ CURRENT_MODEL' = MODELS(variant)[k]
            /\ modelSuccessfullyLoaded' = TRUE
            /\ consecutiveFailures' = 0
            /\ serviceRecoveryAttempts' = 0
            /\ sweeps' = [sweeps EXCEPT ![k] = @ - 1]
            /\ lastSweep' = "recovered"
       ELSE /\ IF k < Len(MODELS(variant))
               THEN /\ sweeps' = [sweeps EXCEPT ![k] = @ - 1, ![k + 1] = @ + 1]
                    /\ UNCHANGED lastSweep
               ELSE /\ sweeps' = [sweeps EXCEPT ![k] = @ - 1]
                    /\ lastSweep' = "failed"
            /\ UNCHANGED << CURRENT_MODEL, modelSuccessfullyLoaded,
                            consecutiveFailures, serviceRecoveryAttempts >>
    /\ UNCHANGED << variant, apiKey, timers, callers, audit, call, limiterVars, text >>

ProbeResponse ==
    \E k \in 1 .. Len(MODELS(variant)), r \in ProbeOutcomes : ProbeSettles(k, r)

\* The 5-minute timer set by attemptServiceRecovery fires.
RecoveryTimer ==
    /\ timers > 0
    /\ HasRoom(0, sweeps, timers - 1)
    /\ LET r == attemptServiceRecovery(0, sweeps, timers - 1)
       IN  /\ serviceRecoveryAttempts' = r.sra
           /\ sweeps' = r.sw
           /\ timers' = r.tm
    /\ UNCHANGED << variant, apiKey, consecutiveFailures, CURRENT_MODEL,
                    modelSuccessfullyLoaded, lastSweep, callers, audit, call, limiterVars, text >>

\* ------------------------------------------------------- dispatch
\* A route that passes the error on as a 500 instead of answering with the fallback.
FallbackResponseAsError(v) ==
    [status |-> 500, generated_text |-> "", model_used |-> ""]

\* The route's answer when callHuggingFaceAPI throws.
FallbackResponse(v) ==
    [status |-> 200, generated_text |-> ConnectivityFallbackText(v),
     model_used |-> "fallback_response"]

\* GenerateCatch without the call of attemptServiceRecovery().
GenerateCatchNoRecovery(c, frame, message) ==
    /\ call' = [call EXCEPT ![c] = [frame EXCEPT !.pc = "done", !.thrown = message,
                                                 !.err = "", !.delay = 0,
                                                 !.resp = FallbackResponse(variant)]]
    /\ UNCHANGED << serviceRecoveryAttempts, sweeps, timers, CURRENT_MODEL >>

\* app.post('/api/huggingface'): the catch around callHuggingFaceAPI. It answers
\* with the fallback and then calls attemptServiceRecovery(). `frame` is the
\* state of the dispatch that threw.
GenerateCatch(c, frame, message) ==
    /\ HasRoom(serviceRecoveryAttempts, sweeps, timers)
    /\ call' = [call EXCEPT ![c] = [frame EXCEPT !.pc = "done", !.thrown = message,
                                                 !.err = "", !.delay = 0,
                                                 !.resp = FallbackResponse(variant)]]
    /\ LET r == attemptServiceRecovery(serviceRecoveryAttempts, sweeps, timers)
       IN  /\ serviceRecoveryAttempts' = r.sra
           /\ sweeps' = r.sw
           /\ timers' = r.tm
    /\ UNCHANGED CURRENT_MODEL

\* The answer of app.get('/api/warmup') when callHuggingFaceAPI throws.
WarmupError == [status |-> 500, generated_text |-> "", model_used |-> ""]

\* app.get('/api/warmup'): the catch around callHuggingFaceAPI.
WarmupCatch(c, frame, message) ==
    /\ call' = [call EXCEPT ![c] = [frame EXCEPT !.pc = "done", !.thrown = message,
                                                 !.err = "", !.delay = 0,
                                                 !.resp = WarmupError,
                                                 !.report = "error"]]
    /\ UNCHANGED << serviceRecoveryAttempts, sweeps, timers, CURRENT_MODEL >>

\* A catch that treats every route as the generate route.
HandlerCatchAsGenerate(c, frame, message) == GenerateCatch(c, frame, message)

\* callHuggingFaceAPI throws: the catch of the route that called it.
HandlerCatch(c, frame, message) ==
    IF frame.route = "warmup"
    THEN WarmupCatch(c, frame, message)
    ELSE GenerateCatch(c, frame, message)

\* The wait that preceded a retry of the same model (0 for a model's first attempt).
LastBusyDelay(frame, attemptNumber, modelIndex) ==
    IF modelIndex = frame.modelIndex /\ attemptNumber > 0 THEN frame.delay ELSE 0

\* FailureDelay without a wait after a timeout.
FailureDelayTimeoutZero(err, attemptNumber) ==
    IF err = "busy" THEN wait(attemptNumber + 1)
    ELSE IF err = "timeout" THEN 0 ELSE wait(0)

\* FailureDelay that always waits wait(1) after a busy answer.
FailureDelayFlat(err, attemptNumber) ==
    IF err = "busy" THEN wait(1) ELSE wait(0)

\* FailureDelay with the busy wait wait(attemptNumber + 2).
FailureDelayLonger(err, attemptNumber) ==
    IF err = "busy" THEN wait(attemptNumber + 2) ELSE wait(0)

\* The wait the catch block awaits before its recursive call.
FailureDelay(err, attemptNumber) ==
    IF err = "busy" THEN wait(attemptNumber + 1) ELSE wait(0)

\* NeedsRecovery with the test `consecutiveFailures > MAX_CONSECUTIVE_FAILURES`.
NeedsRecoveryAbove(failures) == failures > MAX_CONSECUTIVE_FAILURES

\* `if (consecutiveFailures >= MAX_CONSECUTIVE_FAILURES)`, after the increment.
NeedsRecovery(failures) == failures >= MAX_CONSECUTIVE_FAILURES

\* formatPrompt(inputs, modelName) throws: inputs.match is not a function when
\* inputs is not a string.
FormatThrows(inputs) == inputs.given /\ ~inputs.string

\* callHuggingFaceAPI whose formatPrompt threw inside the try: the catch block
\* up to its `await wait(0)`; no POST was sent.
FormatFails(c, frame, attemptNumber, modelIndex) ==
    /\ consecutiveFailures < MaxFailures
    /\ CURRENT_MODEL' = MODELS(variant)[modelIndex + 1]
    /\ consecutiveFailures' = consecutiveFailures + 1
    /\ IF NeedsRecovery(consecutiveFailures + 1)
       THEN /\ HasRoom(serviceRecoveryAttempts, sweeps, timers)
            /\ LET r == attemptServiceRecovery(serviceRecoveryAttempts, sweeps, timers)
               IN  /\ serviceRecoveryAttempts' = r.sra
                   /\ sweeps' = r.sw
                   /\ timers' = r.tm
       ELSE UNCHANGED << serviceRecoveryAttempts, sweeps, timers >>
    /\ call' = [call EXCEPT ![c] = [frame EXCEPT !.pc = "wait",
                                                 !.attemptNumber = attemptNumber,
                                                 !.modelIndex = modelIndex,
                                                 !.err = "other",
                                                 !.delay = FailureDelay("other", attemptNumber),
                                                 !.lastBusy = 0]]

\* Enter without the assignment CURRENT_MODEL = modelName.
EnterKeepsCurrent(c, frame, attemptNumber, modelIndex) ==
    IF ~apiKey
    THEN HandlerCatch(c, frame, MissingKeyError) /\ UNCHANGED consecutiveFailures
    ELSE IF modelIndex >= Len(MODELS(variant))
    THEN HandlerCatch(c, frame, AllFailedError) /\ UNCHANGED consecutiveFailures
    ELSE /\ call' = [call EXCEPT ![c] = [frame EXCEPT !.pc = "net",
                                                      !.attemptNumber = attemptNumber,
                                                      !.modelIndex = modelIndex,
                                                      !.attempts = IF audit THEN @ + 1 ELSE @,
                                                      !.err = "", !.delay = 0,
                                                      !.lastBusy = LastBusyDelay(frame, attemptNumber, modelIndex)]]
         /\ UNCHANGED << CURRENT_MODEL, serviceRecoveryAttempts, sweeps, timers,
                         consecutiveFailures >>

\* Enter without the API key test.
EnterKeyUnchecked(c, frame, attemptNumber, modelIndex) ==
    IF modelIndex >= Len(MODELS(variant))
    THEN HandlerCatch(c, frame, AllFailedError) /\ UNCHANGED consecutiveFailures
    ELSE IF FormatThrows(frame.inputs)
    THEN FormatFails(c, frame, attemptNumber, modelIndex)
    ELSE /\ CURRENT_MODEL' = MODELS(variant)[modelIndex + 1]
         /\ call' = [call EXCEPT ![c] = [frame EXCEPT !.pc = "net",
                                                      !.attemptNumber = attemptNumber,
                                                      !.modelIndex = modelIndex,
                                                      !.attempts = IF audit THEN @ + 1 ELSE @,
                                                      !.err = "", !.delay = 0,
                                                      !.lastBusy = LastBusyDelay(frame, attemptNumber, modelIndex)]]
         /\ UNCHANGED << serviceRecoveryAttempts, sweeps, timers, consecutiveFailures >>

\* callHuggingFaceAPI(inputs, attemptNumber, modelIndex), up to its first await:
\* it throws, or it sets CURRENT_MODEL and sends the POST to MODELS[modelIndex].
Enter(c, frame, attemptNumber, modelIndex) ==
    IF ~apiKey
    THEN HandlerCatch(c, frame, MissingKeyError) /\ UNCHANGED consecutiveFailures
    ELSE IF modelIndex >= Len(MODELS(variant))
    THEN HandlerCatch(c, frame, AllFailedError) /\ UNCHANGED consecutiveFailures
    ELSE IF FormatThrows(frame.inputs)
    THEN FormatFails(c, frame, attemptNumber, modelIndex)
    ELSE /\ CURRENT_MODEL' = MODELS(variant)[modelIndex + 1]
         /\ call' = [call EXCEPT ![c] = [frame EXCEPT !.pc = "net",
                                                      !.attemptNumber = attemptNumber,
                                                      !.modelIndex = modelIndex,
                                                      !.attempts = IF audit THEN @ + 1 ELSE @,
                                                      !.err = "", !.delay = 0,
                                                      !.lastBusy = LastBusyDelay(frame, attemptNumber, modelIndex)]]
         /\ UNCHANGED << serviceRecoveryAttempts, sweeps, timers, consecutiveFailures >>

\* A request passed the rate limiter and the input checks: the route calls
\* callHuggingFaceAPI(inputs), that is with attemptNumber = 0 and modelIndex = 0.
StartRequest(c) ==
    /\ call[c].pc \in {"idle", "done"}
    /\ Enter(c, IdleCall, 0, 0)
    /\ UNCHANGED << variant, apiKey, modelSuccessfullyLoaded,
                    lastSweep, callers, audit, limiterVars, text >>

\* GET /api/warmup: the route calls callHuggingFaceAPI(prompt) with its fixed prompt.
StartWarmup(c) ==
    /\ call[c].pc \in {"idle", "done"}
    /\ Enter(c, [IdleCall EXCEPT !.route = "warmup"], 0, 0)
    /\ UNCHANGED << variant, apiKey, modelSuccessfullyLoaded,
                    lastSweep, callers, audit, limiterVars, text >>

\* The text callHuggingFaceAPI returns for an answer: the extracted text, or the
\* fixed text when the extracted text is too short.
ResultText(short) == IF short THEN ShortFallbackText ELSE GeneratedText

\* SuccessResponse tagged with the global CURRENT_MODEL instead of the local modelName.
SuccessResponseGlobalTag(v, current, modelIndex, short) ==
    [status |-> 200, generated_text |-> ResultText(short), model_used |-> current]

\* What callHuggingFaceAPI returns and the route sends with res.json(data): the
\* text, tagged with modelName = MODELS[modelIndex] of the call that got the answer.
SuccessResponse(v, current, modelIndex, short) ==
    [status |-> 200, generated_text |-> ResultText(short),
     model_used |-> MODELS(v)[modelIndex + 1]]

\* callHuggingFaceAPI returned `result`: the route's answer. The generate route
\* sends the result, the warm-up route a success report that names its model.
Reply(frame, result) ==
    IF frame.route = "warmup"
    THEN [frame EXCEPT !.pc = "done",
                       !.resp = [status |-> 200, generated_text |-> "",
                                 model_used |-> result.model_used],
                       !.report = "success"]
    ELSE [frame EXCEPT !.pc = "done", !.resp = result]

\* ResponseOk without `consecutiveFailures = 0`.
ResponseOkKeepsCount(c) ==
    /\ call[c].pc = "net"
    /\ \E short \in BOOLEAN :
         call' = [call EXCEPT ![c] = Reply(call[c], SuccessResponse(variant, CURRENT_MODEL,
                                                                    call[c].modelIndex, short))]
    /\ modelSuccessfullyLoaded' = TRUE
    /\ UNCHANGED << variant, apiKey, consecutiveFailures, serviceRecoveryAttempts,
                    CURRENT_MODEL, sweeps, lastSweep, timers, callers, audit,
                    limiterVars, text >>

\* The awaited axios.post resolves: lines after the await up to the return, and
\* the route's res.json(data).
ResponseOk(c) ==
    /\ call[c].pc = "net"
    /\ \E short \in BOOLEAN :
         call' = [call EXCEPT ![c] = Reply(call[c], SuccessResponse(variant, CURRENT_MODEL,
                                                                    call[c].modelIndex, short))]
    /\ modelSuccessfullyLoaded' = TRUE
    /\ consecutiveFailures' = 0
    /\ UNCHANGED << variant, apiKey, serviceRecoveryAttempts, CURRENT_MODEL,
                    sweeps, lastSweep, timers, callers, audit, limiterVars, text >>

\* How the catch block classifies a rejected axios.post.
ErrorKinds == {"busy", "timeout", "other"}

\* The awaited axios.post rejects with an error of kind err: the catch block up
\* to its `await wait(..)`.
ResponseFails(c, err) ==
    /\ call[c].pc = "net"
    /\ consecutiveFailures < MaxFailures
    /\ consecutiveFailures' = consecutiveFailures + 1
    /\ IF NeedsRecovery(consecutiveFailures + 1)
       THEN /\ HasRoom(serviceRecoveryAttempts, sweeps, timers)
            /\ LET r == attemptServiceRecovery(serviceRecoveryAttempts, sweeps, timers)
               IN  /\ serviceRecoveryAttempts' = r.sra
                   /\ sweeps' = r.sw
                   /\ timers' = r.tm
       ELSE UNCHANGED << serviceRecoveryAttempts, sweeps, timers >>
    /\ call' = [call EXCEPT ![c].pc = "wait", ![c].err = err,
                            ![c].delay = FailureDelay(err, call[c].attemptNumber)]
    /\ UNCHANGED << variant, apiKey, CURRENT_MODEL, modelSuccessfullyLoaded,
                    lastSweep, callers, audit, limiterVars, text >>

ResponseError(c) == \E err \in ErrorKinds : ResponseFails(c, err)

\* NextFrame that retries the same model after every kind of failure.
NextFrameRetryAll(v, err, attemptNumber, modelIndex) ==
    IF attemptNumber < RetryCap(v)
    THEN [attemptNumber |-> attemptNumber + 1, modelIndex |-> modelIndex]
    ELSE [attemptNumber |-> 0, modelIndex |-> modelIndex + 1]

\* NextFrame that repeats the attempt on a busy model with the same arguments.
NextFrameStuck(v, err, attemptNumber, modelIndex) ==
    IF err = "busy"
    THEN [attemptNumber |-> attemptNumber, modelIndex |-> modelIndex]
    ELSE [attemptNumber |-> 0, modelIndex |-> modelIndex + 1]

\* NextFrame that retries a busy model without counting the attempts.
NextFrameSameIndex(v, err, attemptNumber, modelIndex) ==
    IF err = "busy" /\ attemptNumber < RetryCap(v)
    THEN [attemptNumber |-> attemptNumber + 1, modelIndex |-> modelIndex]
    ELSE [attemptNumber |-> 0, modelIndex |-> IF err = "busy" THEN modelIndex + 2 ELSE modelIndex + 1]

\* NextFrame with the retry test `attemptNumber <= cap`.
NextFrameOneMore(v, err, attemptNumber, modelIndex) ==
    IF err = "busy" /\ attemptNumber <= RetryCap(v)
    THEN [attemptNumber |-> attemptNumber + 1, modelIndex |-> modelIndex]
    ELSE [attemptNumber |-> 0, modelIndex |-> modelIndex + 1]

\* The arguments of the recursive call made after the wait.
NextFrame(v, err, attemptNumber, modelIndex) ==
    IF err = "busy" /\ attemptNumber < RetryCap(v)
    THEN [attemptNumber |-> attemptNumber + 1, modelIndex |-> modelIndex]
    ELSE [attemptNumber |-> 0, modelIndex |-> modelIndex + 1]

\* WaitDone of a dispatch that awaits attemptServiceRecovery(): it goes on only
\* when no sweep is in flight.
WaitDoneAfterSweep(c) ==
    /\ InFlight(sweeps) = 0
    /\ call[c].pc = "wait"
    /\ LET n == NextFrame(variant, call[c].err, call[c].attemptNumber, call[c].modelIndex)
       IN  Enter(c, call[c], n.attemptNumber, n.modelIndex)
    /\ UNCHANGED << variant, apiKey, modelSuccessfullyLoaded,
                    lastSweep, callers, audit, limiterVars, text >>

\* The wait is over: the recursive callHuggingFaceAPI call runs to its await or throws.
WaitDone(c) ==
    /\ call[c].pc = "wait"
    /\ LET n == NextFrame(variant, call[c].err, call[c].attemptNumber, call[c].modelIndex)
       IN  Enter(c, call[c], n.attemptNumber, n.modelIndex)
    /\ UNCHANGED << variant, apiKey, modelSuccessfullyLoaded,
                    lastSweep, callers, audit, limiterVars, text >>

\* ---------------------------------------------------- rate limiter
Clients == {"A", "B"}

\* The clock of the rate limiter scenario advances in steps of half a window.
TickStep == RATE_LIMIT_WINDOW \div 2

\* requestCounts with requestCounts[ip] = entry.
With(rc, ip, entry) == [i \in (DOMAIN rc) \cup {ip} |-> IF i = ip THEN entry ELSE rc[i]]

\* rateLimiter that tests the quota before it counts: a denied request is not counted.
rateLimiterDenyUncounted(rc, ip, t) ==
    IF ip \notin DOMAIN rc \/ t > rc[ip].resetTime
    THEN [rc |-> With(rc, ip, [count |-> 1, resetTime |-> t + RATE_LIMIT_WINDOW]),
          out |-> "next"]
    ELSE IF rc[ip].count >= RATE_LIMIT
    THEN [rc |-> rc, out |-> "429"]
    ELSE [rc |-> With(rc, ip, [count |-> rc[ip].count + 1, resetTime |-> rc[ip].resetTime]),
          out |-> "next"]

\* rateLimiter with the quota test `count >= RATE_LIMIT`.
rateLimiterOffByOne(rc, ip, t) ==
    IF ip \notin DOMAIN rc \/ t > rc[ip].resetTime
    THEN [rc |-> With(rc, ip, [count |-> 1, resetTime |-> t + RATE_LIMIT_WINDOW]),
          out |-> "next"]
    ELSE [rc |-> With(rc, ip, [count |-> rc[ip].count + 1, resetTime |-> rc[ip].resetTime]),
          out |-> IF rc[ip].count + 1 >= RATE_LIMIT THEN "429" ELSE "next"]

\* rateLimiter that lets an expired window run on (`now > resetTime` never taken).
rateLimiterNoReset(rc, ip, t) ==
    IF ip \notin DOMAIN rc
    THEN [rc |-> With(rc, ip, [count |-> 1, resetTime |-> t + RATE_LIMIT_WINDOW]),
          out |-> "next"]
    ELSE [rc |-> With(rc, ip, [count |-> rc[ip].count + 1, resetTime |-> rc[ip].resetTime]),
          out |-> IF rc[ip].count + 1 > RATE_LIMIT THEN "429" ELSE "next"]

\* rateLimiter(req, res, next) for a request of ip at time t: the table it
\* leaves and whether it calls next() or answers 429.
rateLimiter(rc, ip, t) ==
    IF ip \notin DOMAIN rc
    THEN [rc |-> With(rc, ip, [count |-> 1, resetTime |-> t + RATE_LIMIT_WINDOW]),
          out |-> "next"]
    ELSE IF t > rc[ip].resetTime
    THEN [rc |-> With(rc, ip, [count |-> 1, resetTime |-> t + RATE_LIMIT_WINDOW]),
          out |-> "next"]
    ELSE [rc |-> With(rc, ip, [count |-> rc[ip].count + 1, resetTime |-> rc[ip].resetTime]),
          out |-> IF rc[ip].count + 1 > RATE_LIMIT THEN "429" ELSE "next"]

\* A request of client ip reaches the rate limiter.  nth and windowEnd record
\* what the request is in terms of the client's own requests: the first of a
\* window (none before, or the last window is over), or one more in the window.
LimiterStep(ip) ==
    /\ ip \in DOMAIN requestCounts => requestCounts[ip].count < MaxCount
    /\ LET r == rateLimiter(requestCounts, ip, now)
       IN  /\ requestCounts' = r.rc
           /\ decision' = [decision EXCEPT ![ip] = r.out]
           /\ previous' = [previous EXCEPT ![ip] = decision[ip]]
    /\ IF nth[ip] = 0 \/ now > windowEnd[ip]
       THEN /\ nth' = [nth EXCEPT ![ip] = 1]
            /\ windowEnd' = [windowEnd EXCEPT ![ip] = now + RATE_LIMIT_WINDOW]
       ELSE /\ nth' = [nth EXCEPT ![ip] = @ + 1]
            /\ UNCHANGED windowEnd
    /\ UNCHANGED now

\* A request to a route that only the rate limiter handles.
LimiterRequest(ip) ==
    /\ LimiterStep(ip)
    /\ UNCHANGED << dispatchVars, text >>

\* The clean-up with the test `now >= resetTime`.
cleanupAtReset(rc, t) == [i \in {j \in DOMAIN rc : ~(t >= rc[j].resetTime)} |-> rc[i]]

\* The table after the periodic clean-up run at time t.
cleanup(rc, t) == [i \in {j \in DOMAIN rc : ~(t > rc[j].resetTime)} |-> rc[i]]

\* The setInterval callback: it runs every RATE_LIMIT_WINDOW ms.
Cleanup ==
    /\ now >= RATE_LIMIT_WINDOW
    /\ requestCounts' = cleanup(requestCounts, now)
    /\ UNCHANGED << now, decision, previous, nth, windowEnd, dispatchVars, text >>

\* Time passes.
Tick ==
    /\ now + TickStep <= MaxTicks * TickStep
    /\ now' = now + TickStep
    /\ UNCHANGED << requestCounts, decision, previous, nth, windowEnd, dispatchVars, text >>

\* ------------------------------------------------- the generate route
MaxInputLength == 2000

\* The request bodies of the scenario: no inputs field, the empty text, and
\* texts around the length limit.
Inputs ==
    {NoInputs} \cup {[given |-> TRUE, string |-> TRUE, truthy |-> n > 0, len |-> n] :
                        n \in {0, 1, MaxInputLength, MaxInputLength + 1}}

\* Values of inputs that are not strings: the numbers 0 and 5 (no length), and
\* arrays of 1 and of MaxInputLength + 1 elements.
NonStrings ==
    {[given |-> TRUE, string |-> FALSE, truthy |-> t, len |-> 0] : t \in BOOLEAN}
    \cup {[given |-> TRUE, string |-> FALSE, truthy |-> TRUE, len |-> n] :
              n \in {1, MaxInputLength + 1}}

\* validate with the length test `inputs.length >= 2000`.
validateBelow(inputs) ==
    IF ~inputs.given \/ ~inputs.truthy THEN "Bad Request"
    ELSE IF inputs.len >= MaxInputLength THEN "Input too long"
    ELSE "ok"

\* The input checks of the route: the error they answer with, or "ok".
validate(inputs) ==
    IF ~inputs.given \/ ~inputs.truthy THEN "Bad Request"
    ELSE IF inputs.len > MaxInputLength THEN "Input too long"
    ELSE "ok"

\* A route that checks the inputs before it asks the rate limiter.
RouteOutcomeValidateFirst(limiterOut, inputs) ==
    IF validate(inputs) # "ok" THEN validate(inputs)
    ELSE IF limiterOut = "429" THEN "Rate limit exceeded"
    ELSE "ok"

\* app.post('/api/huggingface', rateLimiter, handler): the middleware answers
\* 429 or calls next(); the handler then checks the inputs.
RouteOutcome(limiterOut, inputs) ==
    IF limiterOut = "429" THEN "Rate limit exceeded" ELSE validate(inputs)

\* The answer of a request that is turned away with `error`.
Rejection(error, inputs) ==
    [IdleCall EXCEPT !.pc = "rejected", !.error = error, !.inputs = inputs,
                     !.resp = [status |-> IF error = "Rate limit exceeded" THEN 429 ELSE 400,
                               generated_text |-> "", model_used |-> ""]]

\* PostGenerate of a route that checks the inputs first and asks the rate
\* limiter only for requests with valid inputs.
PostGenerateValidateFirst(c, ip, inputs) ==
    /\ call[c].pc \in {"idle", "done", "rejected"}
    /\ IF validate(inputs) # "ok"
       THEN /\ call' = [call EXCEPT ![c] = Rejection(validate(inputs), inputs)]
            /\ UNCHANGED << limiterVars, CURRENT_MODEL, serviceRecoveryAttempts, sweeps,
                            timers, consecutiveFailures >>
       ELSE /\ LimiterStep(ip)
            /\ IF rateLimiter(requestCounts, ip, now).out = "next"
               THEN Enter(c, [IdleCall EXCEPT !.inputs = inputs], 0, 0)
               ELSE /\ call' = [call EXCEPT ![c] = Rejection("Rate limit exceeded", inputs)]
                    /\ UNCHANGED << CURRENT_MODEL, serviceRecoveryAttempts, sweeps, timers,
                                    consecutiveFailures >>
    /\ UNCHANGED << variant, apiKey, modelSuccessfullyLoaded,
                    lastSweep, callers, audit, text >>

\* POST /api/huggingface of client ip with body {inputs}: the rate limiter and
\* the handler up to its first await.
PostGenerate(c, ip, inputs) ==
    /\ call[c].pc \in {"idle", "done", "rejected"}
    /\ LimiterStep(ip)
    /\ LET out == RouteOutcome(rateLimiter(requestCounts, ip, now).out, inputs)
       IN  IF out = "ok"
           THEN Enter(c, [IdleCall EXCEPT !.inputs = inputs], 0, 0)
           ELSE /\ call' = [call EXCEPT ![c] = Rejection(out, inputs)]
                /\ UNCHANGED << CURRENT_MODEL, serviceRecoveryAttempts, sweeps, timers,
                                consecutiveFailures >>
    /\ UNCHANGED << variant, apiKey, modelSuccessfullyLoaded,
                    lastSweep, callers, audit, text >>

\* ------------------------------------------------------------ texts
\* A text is the sequence of its characters; the fixed texts the program
\* answers with are kept as strings (see Fixed and Free below).
UpperCase ==
    << "A", "B", "C", "D", "E", "F", "G", "H", "I", "J", "K", "L", "M", "N", "O", "P", "Q", "R", "S", "T", "U", "V", "W", "X", "Y", "Z" >>

LowerCase ==
    << "a", "b", "c", "d", "e", "f", "g", "h", "i", "j", "k", "l", "m", "n", "o", "p", "q", "r", "s", "t", "u", "v", "w", "x", "y", "z" >>

toLowerCase(ch) ==
    IF \E i \in DOMAIN UpperCase : UpperCase[i] = ch
    THEN LowerCase[CHOOSE i \in DOMAIN UpperCase : UpperCase[i] = ch]
    ELSE ch

\* The characters that \s and trim() treat as white space.
WhiteSpace == {" ", "\n", "\t", "\r"}

LineFeed == "\n"

\* Pattern p occurs in text s at position i (ignoreCase: the `i` flag).
MatchAt(s, i, p, ignoreCase) ==
    /\ i >= 1
    /\ i + Len(p) - 1 <= Len(s)
    /\ \A k \in 1 .. Len(p) :
         IF ignoreCase
         THEN toLowerCase(s[i + k - 1]) = toLowerCase(p[k])
         ELSE s[i + k - 1] = p[k]

\* The first position at or after `from` where p occurs in s; 0 when there is none.
IndexOf(s, p, from, ignoreCase) ==
    LET hits == {i \in from .. Len(s) : MatchAt(s, i, p, ignoreCase)}
    IN  IF hits = {} THEN 0 ELSE CHOOSE i \in hits : \A j \in hits : i <= j

includes(s, p, ignoreCase) == IndexOf(s, p, 1, ignoreCase) > 0

\* s without its characters i .. j.
Cut(s, i, j) == SubSeq(s, 1, i - 1) \o SubSeq(s, j + 1, Len(s))

\* s.replace(/p/, ''): the first occurrence of a literal pattern is removed.
replaceFirst(s, p, ignoreCase) ==
    LET i == IndexOf(s, p, 1, ignoreCase)
    IN  IF i = 0 THEN s ELSE Cut(s, i, i + Len(p) - 1)

\* The leftmost occurrence of one of the patterns: its position and length.
Leftmost(s, patterns) ==
    LET hits == {h \in (1 .. Len(s)) \X patterns : MatchAt(s, h[1], h[2], FALSE)}
    IN  IF hits = {} THEN << 0, 0 >>
        ELSE LET h == CHOOSE h \in hits : \A g \in hits : h[1] <= g[1]
             IN  << h[1], Len(h[2]) >>

\* s.replace(/p1|p2/, ''): the leftmost occurrence of one of the patterns is removed.
replaceFirstOf(s, patterns) ==
    LET h == Leftmost(s, patterns)
    IN  IF h[1] = 0 THEN s ELSE Cut(s, h[1], h[1] + h[2] - 1)

\* s.replace(/p1|p2/g, ''): every occurrence, left to right, is removed.
RECURSIVE replaceAllOf(_, _)
replaceAllOf(s, patterns) ==
    LET h == Leftmost(s, patterns)
    IN  IF h[1] = 0 THEN s
        ELSE SubSeq(s, 1, h[1] - 1) \o replaceAllOf(SubSeq(s, h[1] + h[2], Len(s)), patterns)

\* s.replace(/open.*?close/s, ''): the first `open` up to the first `close`
\* after it is removed; nothing when no `close` follows.
RemoveSpan(s, open, close) ==
    LET i == IndexOf(s, open, 1, FALSE)
        j == IF i = 0 THEN 0 ELSE IndexOf(s, close, i + Len(open), FALSE)
    IN  IF j = 0 THEN s ELSE Cut(s, i, j + Len(close) - 1)

RECURSIVE trimStart(_)
trimStart(s) ==
    IF s # << >> /\ Head(s) \in WhiteSpace THEN trimStart(Tail(s)) ELSE s

RECURSIVE trimEnd(_)
trimEnd(s) ==
    IF s # << >> /\ s[Len(s)] \in WhiteSpace THEN trimEnd(SubSeq(s, 1, Len(s) - 1)) ELSE s

trim(s) == trimEnd(trimStart(s))

\* The first line of s and what follows its line feed.
FirstLine(s) ==
    LET n == IndexOf(s, << LineFeed >>, 1, FALSE)
    IN  IF n = 0 THEN [line |-> s, last |-> TRUE, rest |-> << >>]
        ELSE [line |-> SubSeq(s, 1, n - 1), last |-> FALSE, rest |-> SubSeq(s, n + 1, Len(s))]

\* s.replace(/^prefix.*$/gm, ''): every line that starts with prefix is emptied.
RECURSIVE BlankLines(_, _)
BlankLines(s, prefix) ==
    LET f == FirstLine(s)
        kept == IF MatchAt(f.line, 1, prefix, FALSE) THEN << >> ELSE f.line
    IN  IF f.last THEN kept ELSE kept \o << LineFeed >> \o BlankLines(f.rest, prefix)

\* StripLabel that leaves the label where it is.
StripLabelKept(s, labels) == s

\* s.replace(/^(l1|l2|..):\s*/i, ''): a role label at the start of s, its colon
\* and the white space after it are removed.
StripLabel(s, labels) ==
    LET hits == {k \in DOMAIN labels : MatchAt(s, 1, labels[k] \o << ":" >>, TRUE)}
    IN  IF hits = {} THEN s
        ELSE LET k == CHOOSE k \in hits : \A j \in hits : k <= j
             IN  trimStart(SubSeq(s, Len(labels[k]) + 2, Len(s)))

\* The patterns of the two variants.
Labels ==
    << << "A", "s", "s", "i", "s", "t", "a", "n", "t" >>,
       << "D", "e", "r", "m", "i" >>,
       << "A" >> >>

EndOfSequenceTags ==
    { << "<", "s", ">" >>,
      << "<", "/", "s", ">" >> }

InstOpen == << "[", "I", "N", "S", "T", "]" >>

InstClose == << "[", "/", "I", "N", "S", "T", "]" >>

UserTag == << "<", "|", "U", "S", "E", "R", "|", ">" >>

AssistantTag == << "<", "|", "A", "S", "S", "I", "S", "T", "A", "N", "T", "|", ">" >>

TagOpen == << "<", "|" >>

TagClose == << "|", ">" >>

HumanPrefix == << "H", "u", "m", "a", "n", ":" >>

DermiTurn == << "\n", "\n", "D", "e", "r", "m", "i" >>

QuestionPrefix == << "Q", ":" >>

systemInstructionPhrases ==
    << << "Y", "o", "u", " ", "a", "r", "e", " ", "D", "e", "r", "m", "i", ",", " ", "a", " ", "d", "e", "r", "m", "a", "t", "o", "l", "o", "g", "y", " ", "a", "s", "s", "i", "s", "t", "a", "n", "t" >>,
       << "Y", "o", "u", " ", "a", "r", "e", " ", "a", " ", "d", "e", "r", "m", "a", "t", "o", "l", "o", "g", "y", " ", "a", "s", "s", "i", "s", "t", "a", "n", "t" >>,
       << "I", " ", "a", "m", " ", "D", "e", "r", "m", "i", ",", " ", "a", " ", "d", "e", "r", "m", "a", "t", "o", "l", "o", "g", "y", " ", "a", "s", "s", "i", "s", "t", "a", "n", "t" >>,
       << "n", "e", "v", "e", "r", " ", "c", "l", "a", "i", "m", " ", "y", "o", "u", " ", "c", "a", "n", " ", "d", "i", "a", "g", "n", "o", "s", "e" >>,
       << "n", "e", "v", "e", "r", " ", "d", "i", "a", "g", "n", "o", "s", "e", " ", "-", " ", "a", "l", "w", "a", "y", "s", " ", "r", "e", "c", "o", "m", "m", "e", "n", "d", " ", "s", "e", "e", "i", "n", "g", " ", "a", " ", "d", "o", "c", "t", "o", "r" >>,
       << "k", "e", "e", "p", " ", "a", "n", "s", "w", "e", "r", "s", " ", "b", "r", "i", "e", "f" >> >>

\* /<\|.*?\|>/g: where the tag that opens at i ends (0: no tag opens at i).
TagEnd(s, i) ==
    LET j == IndexOf(s, TagClose, i + Len(TagOpen), FALSE)
    IN  IF \/ ~MatchAt(s, i, TagOpen, FALSE)
           \/ j = 0
           \/ \E k \in i + Len(TagOpen) .. j - 1 : s[k] = LineFeed
        THEN 0
        ELSE j + Len(TagClose) - 1

RECURSIVE RemoveTags(_)
RemoveTags(s) ==
    LET opens == {i \in 1 .. Len(s) : TagEnd(s, i) # 0}
    IN  IF opens = {} THEN s
        ELSE LET i == CHOOSE i \in opens : \A j \in opens : i <= j
             IN  SubSeq(s, 1, i - 1) \o RemoveTags(SubSeq(s, TagEnd(s, i) + 1, Len(s)))

\* /^Human:.*?\n\nDermi.*?:/s: the echoed human turn and the label of the answer.
RemoveHumanTurn(s) ==
    LET j == IF MatchAt(s, 1, HumanPrefix, FALSE)
             THEN IndexOf(s, DermiTurn, Len(HumanPrefix) + 1, FALSE) ELSE 0
        k == IF j = 0 THEN 0 ELSE IndexOf(s, << ":" >>, j + Len(DermiTurn), FALSE)
    IN  IF k = 0 THEN s ELSE SubSeq(s, k + 1, Len(s))

\* The loop over systemInstructionPhrases, from phrase k on.
RECURSIVE RemovePhrases(_, _)
RemovePhrases(s, k) ==
    IF k > Len(systemInstructionPhrases) THEN s
    ELSE RemovePhrases(replaceFirst(s, systemInstructionPhrases[k], TRUE), k + 1)

\* modelName.includes('mistral') and so on: the branch extractModelResponse takes.
ModelFamily(modelName) ==
    CASE modelName = "mistralai/Mistral-7B-Instruct-v0.1" -> "mistral"
      [] modelName = "microsoft/phi-2" -> "phi-2"
      [] modelName = "google/flan-t5-small" -> "flan-t5"
      [] modelName \in {"facebook/opt-1.3b", "facebook/opt-350m"} -> "opt"
      [] OTHER -> "other"

\* The fixed texts of extractModelResponse.
CouldNotGenerateText ==
    "I apologize, but I couldn't generate a proper response. Could you try asking your question differently?"

NeedMoreDetailText ==
    "I'm here to help with your skin health questions. Could you provide more details about your question?"

\* A text the program holds: one of its fixed texts, or a sequence of characters.
Fixed(string) == [fixed |-> TRUE, text |-> string]

Free(s) == [fixed |-> FALSE, text |-> s]

\* a === b for two texts the program holds.
SameText(a, b) == a.fixed = b.fixed /\ a.text = b.text

\* generatedText.length
Length(t) == Len(t.text)

\* extractModelResponse up to and including trim().
Cleaned(response, modelName) ==
    LET family == ModelFamily(modelName)
        a == CASE family = "mistral" ->
                    RemoveSpan(replaceAllOf(response, EndOfSequenceTags), InstOpen, InstClose)
               [] family = "phi-2" ->
                    RemoveTags(RemoveSpan(response, UserTag, AssistantTag))
               [] family = "opt" ->
                    BlankLines(RemoveHumanTurn(response), HumanPrefix)
               [] OTHER -> response
        b == BlankLines(StripLabel(a, Labels), QuestionPrefix)
    IN  trim(RemovePhrases(b, 1))

MinCleanedLength == 10

\* extractModelResponse that returns the cleaned text whatever its length.
extractModelResponseUngated(response, modelName) ==
    IF Len(response) < 1 THEN Fixed(CouldNotGenerateText)
    ELSE Free(Cleaned(response, modelName))

\* extractModelResponse of part_000.
extractModelResponse(response, modelName) ==
    IF Len(response) < 1 THEN Fixed(CouldNotGenerateText)
    ELSE IF Len(Cleaned(response, modelName)) < MinCleanedLength
    THEN Fixed(NeedMoreDetailText)
    ELSE Free(Cleaned(response, modelName))

\* ------------------------------------ texts: the OPT variant (server.js)
UserTurn == << "\n", "U", "s", "e", "r", ":" >>

InstTags ==
    { << "<", "I", "N", "S", "T", ">" >>,
      << "<", "/", "I", "N", "S", "T", ">" >> }

AnswerLabel == << "A", ":" >>

systemMarkers ==
    << << "Y", "o", "u", " ", "a", "r", "e", " ", "D", "e", "r", "m", "i" >>,
       << "f", "r", "i", "e", "n", "d", "l", "y", " ", "d", "e", "r", "m", "a", "t", "o", "l", "o", "g", "y", " ", "A", "I" >>,
       << "A", "B", "C", "D", "E", " ", "r", "u", "l", "e" >>,
       << "s", "k", "i", "n", " ", "h", "e", "a", "l", "t", "h", " ", "a", "s", "s", "i", "s", "t", "a", "n", "t" >>,
       << "n", "e", "v", "e", "r", " ", "c", "l", "a", "i", "m", " ", "y", "o", "u", " ", "c", "a", "n", " ", "d", "i", "a", "g", "n", "o", "s", "e" >>,
       << "k", "e", "e", "p", " ", "y", "o", "u", "r", " ", "a", "n", "s", "w", "e", "r", " ", "b", "r", "i", "e", "f" >> >>

possibleStartPatterns ==
    << << "H", "i" >>,
       << "H", "e", "l", "l", "o" >>,
       << "I", "'", "d" >>,
       << "I", " ", "c", "a", "n" >>,
       << "W", "e", "l", "c", "o", "m", "e" >>,
       << "T", "h", "e", " ", "D", "e", "r", "m", "i", " ", "a", "p", "p" >>,
       << "T", "h", "i", "s", " ", "a", "p", "p" >>,
       << "N", "o", "," >>,
       << "Y", "e", "s", "," >>,
       << "I", "'", "m" >>,
       << "T", "o", " ", "u", "s", "e" >> >>

Dermatology == << "d", "e", "r", "m", "a", "t", "o", "l", "o", "g", "y" >>

AssistantWord == << "a", "s", "s", "i", "s", "t", "a", "n", "t" >>

ABCDE == << "A", "B", "C", "D", "E" >>

\* s.replace(/\nUser:.*$/s, ''): everything from the first user turn on is removed.
CutFrom(s, p) ==
    LET i == IndexOf(s, p, 1, FALSE)
    IN  IF i = 0 THEN s ELSE SubSeq(s, 1, i - 1)

\* s.replace(/^A:\s*(\[.*?\]\s*)?/i, ''): the answer label, and a bracketed
\* note that follows it on the same line, are removed.
StripAnswerLabel(s) ==
    IF ~MatchAt(s, 1, AnswerLabel, TRUE) THEN s
    ELSE LET r == trimStart(SubSeq(s, Len(AnswerLabel) + 1, Len(s)))
             j == IndexOf(r, << "]" >>, 2, FALSE)
         IN  IF /\ MatchAt(r, 1, << "[" >>, FALSE)
                /\ j # 0
                /\ \A k \in 2 .. j - 1 : r[k] # LineFeed
             THEN trimStart(SubSeq(r, j + 1, Len(r)))
             ELSE r

\* lines.filter(..): the lines of s that contain none of the systemMarkers.
RECURSIVE filteredLines(_)
filteredLines(s) ==
    LET f == FirstLine(s)
        kept == IF \E k \in DOMAIN systemMarkers : includes(f.line, systemMarkers[k], TRUE)
                THEN << >> ELSE << f.line >>
    IN  IF f.last THEN kept ELSE kept \o filteredLines(f.rest)

\* lines.join('\n')
RECURSIVE join(_)
join(lines) ==
    IF lines = << >> THEN << >>
    ELSE IF Len(lines) = 1 THEN lines[1]
    ELSE lines[1] \o << LineFeed >> \o join(Tail(lines))

\* The search for the start of the answer in a text that still shows
\* instructions: the text from the first pattern that occurs after position 0.
FromStartPattern(s) ==
    LET found == {k \in DOMAIN possibleStartPatterns :
                      IndexOf(s, possibleStartPatterns[k], 1, FALSE) > 1}
    IN  IF /\ includes(s, Dermatology, FALSE)
           /\ includes(s, AssistantWord, FALSE) \/ includes(s, ABCDE, FALSE)
           /\ found # {}
        THEN LET k == CHOOSE k \in found : \A j \in found : k <= j
             IN  SubSeq(s, IndexOf(s, possibleStartPatterns[k], 1, FALSE), Len(s))
        ELSE s

\* extractModelResponse of the OPT variant.
extractModelResponseOPT(response, modelName) ==
    LET family == ModelFamily(modelName)
        a == CASE family = "phi-2" ->
                    replaceFirstOf(StripLabel(StripLabel(CutFrom(response, UserTurn),
                                                         << Labels[1] >>),
                                              << Labels[2] >>),
                                   InstTags)
               [] family \in {"flan-t5", "opt"} ->
                    BlankLines(StripAnswerLabel(response), QuestionPrefix)
               [] OTHER -> response
    IN  Free(trim(FromStartPattern(trim(join(filteredLines(a))))))

\* The extractModelResponse of variant v.
Extract(v, response, modelName) ==
    IF v = "mistral"
    THEN extractModelResponse(response, modelName)
    ELSE extractModelResponseOPT(response, modelName)

\* `generatedText.length < 15` in part_000, `< 20` in server.js
MinResultLength(v) == IF v = "mistral" THEN 15 ELSE 20

\* GeneratedTextOf without the replacement of a short text.
GeneratedTextOfUnchecked(v, rawResponse, modelName) == Extract(v, rawResponse, modelName)

\* The generated_text callHuggingFaceAPI returns for rawResponse.
GeneratedTextOf(v, rawResponse, modelName) ==
    IF Length(Extract(v, rawResponse, modelName)) < MinResultLength(v)
    THEN Fixed(ShortFallbackText)
    ELSE Extract(v, rawResponse, modelName)

\* ------------------------------------------------- texts: payload
\* response.data: an array of objects, an object, a string, a number or
\* null.  An object has a generated_text field (has) or no field at all.
Object(has, generated_text) == [has |-> has, generated_text |-> generated_text]

Data(type, items, object, value, number) ==
    [type |-> type, items |-> items, object |-> object, value |-> value, number |-> number]

NoObject == Object(FALSE, << >>)

NoData == Data("none", << >>, NoObject, << >>, 0)

ArrayData(items) == Data("array", items, NoObject, << >>, 0)

ObjectData(object) == Data("object", << >>, object, << >>, 0)

StringData(value) == Data("string", << >>, NoObject, value, 0)

NumberData(number) == Data("number", << >>, NoObject, << >>, number)

NullData == Data("null", << >>, NoObject, << >>, 0)

\* JSON.stringify of a string: quotes, with ", \ and the line feed escaped.
RECURSIVE Escape(_)
Escape(t) ==
    IF t = << >> THEN << >>
    ELSE (CASE t[1] = "\"" -> << "\\", "\"" >>
            [] t[1] = "\\" -> << "\\", "\\" >>
            [] t[1] = "\n" -> << "\\", "n" >>
            [] OTHER -> << t[1] >>) \o Escape(Tail(t))

Quote(t) == << "\"" >> \o Escape(t) \o << "\"" >>

\* JSON.stringify of a natural number.
Digit(n) == << "0", "1", "2", "3", "4", "5", "6", "7", "8", "9" >>[n + 1]

RECURSIVE Digits(_)
Digits(n) == IF n < 10 THEN << Digit(n) >> ELSE Digits(n \div 10) \o << Digit(n % 10) >>

StringifyObject(o) ==
    IF o.has
    THEN << "{" >> \o Quote(<< "g", "e", "n", "e", "r", "a", "t", "e", "d", "_", "t", "e", "x", "t" >>) \o << ":" >> \o Quote(o.generated_text) \o << "}" >>
    ELSE << "{", "}" >>

RECURSIVE StringifyItems(_)
StringifyItems(items) ==
    IF items = << >> THEN << >>
    ELSE StringifyObject(items[1]) \o
         (IF Len(items) > 1 THEN << "," >> ELSE << >>) \o StringifyItems(Tail(items))

\* JSON.stringify(response.data)
stringify(data) ==
    CASE data.type = "array" -> << "[" >> \o StringifyItems(data.items) \o << "]" >>
      [] data.type = "object" -> StringifyObject(data.object)
      [] data.type = "string" -> Quote(data.value)
      [] data.type = "number" -> Digits(data.number)
      [] OTHER -> << "n", "u", "l", "l" >>

\* `o.generated_text || ''`
GeneratedTextOr(o) == IF o.has THEN o.generated_text ELSE << >>

\* response.data is truthy.
Truthy(data) ==
    CASE data.type \in {"array", "object"} -> TRUE
      [] data.type = "string" -> data.value # << >>
      [] data.type = "number" -> data.number # 0
      [] OTHER -> FALSE

\* Reading response.data.generated_text throws: typeof null is 'object'.
ParseThrows(data) == data.type = "null"

\* The text the three shapes give, before `if (!rawResponse && response.data)`.
ShapeText(data) ==
    CASE data.type = "array" ->
            IF Len(data.items) > 0 THEN GeneratedTextOr(data.items[1]) ELSE << >>
      [] data.type = "object" -> GeneratedTextOr(data.object)
      [] data.type = "string" -> data.value
      [] OTHER -> << >>

\* callHuggingFaceAPI: rawResponse for the payload response.data
RawResponseOf(data) ==
    IF ShapeText(data) = << >> /\ Truthy(data)
    THEN stringify(data)
    ELSE ShapeText(data)

\* ------------------------------------------------- texts: scenario
\* No answer is being processed.
NoText == [pc |-> "none", data |-> NoData, rawResponse |-> << >>, modelName |-> "",
           extracted |-> Fixed(""), generated |-> Fixed("")]

\* The raw answers of the scenario: a prefix, a body and a suffix, which
\* together exercise every rule of both extractModelResponse functions and
\* the length limits 10, 15 and 20.
RawPrefixes ==
    { <<  >>,
      << "A", ":", " " >>,
      << "a", ":" >>,
      << "A", "s", "s", "i", "s", "t", "a", "n", "t", ":", " " >>,
      << "D", "e", "r", "m", "i", ":", "\n" >>,
      << "Q", ":", " ", "w", "h", "y", "?", "\n" >>,
      << "<", "s", ">" >>,
      << "[", "I", "N", "S", "T", "]", " ", "h", "i", " ", "[", "/", "I", "N", "S", "T", "]", " " >>,
      << "<", "|", "U", "S", "E", "R", "|", ">", "h", "i", "<", "|", "A", "S", "S", "I", "S", "T", "A", "N", "T", "|", ">" >>,
      << "H", "u", "m", "a", "n", ":", " ", "h", "i", "\n", "\n", "D", "e", "r", "m", "i", ":" >>,
      << "H", "u", "m", "a", "n", ":", " ", "h", "i", "\n" >>,
      << " " >>,
      << "A", ":", " ", "[", "n", "o", "t", "e", "]", " " >>,
      << "Y", "o", "u", " ", "a", "r", "e", " ", "D", "e", "r", "m", "i", "\n" >> }

PlainBodies ==
    { << "o", "k" >>,
      << "U", "s", "e", " ", "s", "o", "a", "p", "." >>,
      << "U", "s", "e", " ", "a", " ", "s", "o", "a", "p" >>,
      << "W", "e", "a", "r", " ", "s", "u", "n", "s", "c", "r", "e", "e", "n" >>,
      << "U", "s", "e", " ", "s", "u", "n", "s", "c", "r", "e", "e", "n", ".", "." >>,
      << "U", "s", "e", " ", "s", "u", "n", "s", "c", "r", "e", "e", "n", " ", "d", "a", "i", "l", "y" >>,
      << "W", "e", "a", "r", " ", "s", "u", "n", "s", "c", "r", "e", "e", "n", " ", "d", "a", "i", "l", "y" >> }

RawBodies ==
    PlainBodies \cup
    { <<  >>,
      << "k", "e", "e", "p", " ", "a", "n", "s", "w", "e", "r", "s", " ", "b", "r", "i", "e", "f" >>,
      << "A", " ", "d", "e", "r", "m", "a", "t", "o", "l", "o", "g", "y", " ", "a", "s", "s", "i", "s", "t", "a", "n", "t", " ", "s", "a", "y", "s", ":", " ", "H", "e", "l", "l", "o", ",", " ", "u", "s", "e", " ", "s", "u", "n", "s", "c", "r", "e", "e", "n" >> }

RawSuffixes ==
    { <<  >>,
      << " " >>,
      << "<", "/", "s", ">" >>,
      << "\n", "Q", ":", " ", "m", "o", "r", "e", "?" >>,
      << "\n", "U", "s", "e", "r", ":", " ", "b", "y", "e" >> }

RawResponses == {p \o b \o q : p \in RawPrefixes, b \in RawBodies, q \in RawSuffixes}

\* The names in the catalogue of variant v.
ModelNames(v) == {MODELS(v)[k] : k \in DOMAIN MODELS(v)}

\* The continuations of the scenario: none, blanks, a short one and a long one.
Continuations ==
    { << >>,
      << " ", " " >>,
      << "o", "k" >>,
      << "U", "s", "e", " ", "\"", "S", "P", "F", " ", "3", "0", "\"", "\n", "d", "a", "i", "l", "y", "." >> }

\* The payloads of the scenario.
Payloads ==
    {ArrayData(<< >>), NullData, NumberData(0), NumberData(42)}
    \cup {ArrayData(<< Object(h, t) >>) : h \in BOOLEAN, t \in Continuations}
    \cup {ArrayData(<< Object(TRUE, t), Object(TRUE, << "x" >>) >>) : t \in Continuations}
    \cup {ObjectData(Object(h, t)) : h \in BOOLEAN, t \in Continuations}
    \cup {StringData(t) : t \in Continuations}

\* callHuggingFaceAPI: the payload is parsed into rawResponse.
ParseStep ==
    /\ text.pc = "data"
    /\ text' = IF ParseThrows(text.data)
               THEN [text EXCEPT !.pc = "thrown"]
               ELSE [text EXCEPT !.pc = "raw", !.rawResponse = RawResponseOf(text.data)]
    /\ UNCHANGED << dispatchVars, limiterVars >>

\* callHuggingFaceAPI: const generatedText = extractModelResponse(rawResponse, modelName)
ExtractStep ==
    /\ text.pc = "raw"
    /\ text' = [text EXCEPT !.pc = "extracted",
                            !.extracted = Extract(variant, text.rawResponse, text.modelName)]
    /\ UNCHANGED << dispatchVars, limiterVars >>

\* callHuggingFaceAPI: the length test and the return.
ReturnStep ==
    /\ text.pc = "extracted"
    /\ text' = [text EXCEPT !.pc = "returned",
                            !.generated = GeneratedTextOf(variant, text.rawResponse,
                                                          text.modelName)]
    /\ UNCHANGED << dispatchVars, limiterVars >>

\* ------------------------------------------------------ specification
InitDispatch ==
    /\ variant \in Variants
    /\ apiKey \in BOOLEAN
    /\ consecutiveFailures = 0
    /\ serviceRecoveryAttempts = 0
    /\ CURRENT_MODEL = InitialModel(variant)
    /\ modelSuccessfullyLoaded = FALSE
    /\ sweeps = [k \in 1 .. Len(MODELS(variant)) |-> 0]
    /\ lastSweep = "none"
    /\ timers = 0
    /\ callers = {1}
    /\ call = [c \in callers |-> IdleCall]

InitLimiter ==
    /\ requestCounts = << >>
    /\ now = 0
    /\ decision = [ip \in Clients |-> "none"]
    /\ previous = [ip \in Clients |-> "none"]
    /\ nth = [ip \in Clients |-> 0]
    /\ windowEnd = [ip \in Clients |-> 0]

Init ==
    /\ InitDispatch
    /\ audit = FALSE
    /\ InitLimiter
    /\ text = NoText

Next ==
    \/ \E c \in callers : StartRequest(c)
    \/ \E c \in callers : ResponseOk(c)
    \/ \E c \in callers : ResponseError(c)
    \/ \E c \in callers : WaitDone(c)
    \/ ProbeResponse
    \/ RecoveryTimer

\* Dispatch and recovery, one request handler at a time.
Spec == Init /\ [][Next]_vars

\* Every POST is answered or times out (axios timeout), every setTimeout fires.
Fairness ==
    /\ WF_vars(\E c \in callers : ResponseOk(c) \/ ResponseError(c))
    /\ WF_vars(\E c \in callers : WaitDone(c))
    /\ WF_vars(ProbeResponse)
    /\ WF_vars(RecoveryTimer)

SpecFair == Spec /\ Fairness

\* The same, with the POSTs of each dispatch counted.
InitAudit ==
    /\ InitDispatch
    /\ audit = TRUE
    /\ InitLimiter
    /\ text = NoText

SpecAudit == InitAudit /\ [][Next]_vars

\* Warm-up requests instead of generate requests.
NextWarm ==
    \/ \E c \in callers : StartWarmup(c)
    \/ \E c \in callers : ResponseOk(c)
    \/ \E c \in callers : ResponseError(c)
    \/ \E c \in callers : WaitDone(c)
    \/ ProbeResponse
    \/ RecoveryTimer

SpecWarm == Init /\ [][NextWarm]_vars

\* The generate route as a whole: the requests of one client within one window
\* of the rate limiter, with all kinds of bodies, in front of models that
\* answer or time out and of health checks that fail.
RouteClients == {"A"}

NextRoute ==
    \/ \E c \in callers, ip \in RouteClients, inputs \in Inputs : PostGenerate(c, ip, inputs)
    \/ \E c \in callers : ResponseOk(c)
    \/ \E c \in callers : ResponseFails(c, "timeout")
    \/ \E c \in callers : WaitDone(c)
    \/ \E k \in 1 .. Len(MODELS(variant)) : ProbeSettles(k, "error")
    \/ RecoveryTimer

SpecRoute == Init /\ [][NextRoute]_vars

\* The generate route with bodies whose inputs is a string or another value.
FormatInputs == {[given |-> TRUE, string |-> TRUE, truthy |-> TRUE, len |-> 1]} \cup NonStrings

NextFormat ==
    \/ \E c \in callers, ip \in RouteClients, inputs \in FormatInputs :
            PostGenerate(c, ip, inputs)
    \/ \E c \in callers : ResponseOk(c)
    \/ \E c \in callers : ResponseFails(c, "timeout")
    \/ \E c \in callers : WaitDone(c)
    \/ \E k \in 1 .. Len(MODELS(variant)) : ProbeSettles(k, "error")
    \/ RecoveryTimer

SpecFormat == Init /\ [][NextFormat]_vars

\* Two request handlers at once: their dispatches and the recovery sweeps interleave.
\* Each of the two handlers serves one request.
InitConcurrent ==
    /\ variant = "opt"
    /\ apiKey = TRUE
    /\ consecutiveFailures = 0
    /\ serviceRecoveryAttempts = 0
    /\ CURRENT_MODEL = InitialModel(variant)
    /\ modelSuccessfullyLoaded = FALSE
    /\ sweeps = [k \in 1 .. Len(MODELS(variant)) |-> 0]
    /\ lastSweep = "none"
    /\ timers = 0
    /\ callers = {1, 2}
    /\ call = [c \in callers |-> IdleCall]
    /\ audit = FALSE
    /\ InitLimiter
    /\ text = NoText

NextConcurrent ==
    \/ \E c \in callers : call[c].pc = "idle" /\ StartRequest(c)
    \/ \E c \in callers : ResponseOk(c)
    \/ \E c \in callers, err \in {"busy", "timeout"} : ResponseFails(c, err)
    \/ \E c \in callers : WaitDone(c)
    \/ \E k \in 1 .. Len(MODELS(variant)), r \in {"ok200", "error"} : ProbeSettles(k, r)
    \/ RecoveryTimer

SpecConcurrent == InitConcurrent /\ [][NextConcurrent]_vars

\* The scenario in which no model answers in time: every POST of a dispatch and
\* every health check of a sweep times out.
InitTimeouts ==
    /\ InitAudit
    /\ apiKey = TRUE

NextTimeouts ==
    \/ \E c \in callers : StartRequest(c)
    \/ \E c \in callers : ResponseFails(c, "timeout")
    \/ \E c \in callers : WaitDone(c)
    \/ \E k \in 1 .. Len(MODELS(variant)) : ProbeSettles(k, "error")

SpecTimeouts == InitTimeouts /\ [][NextTimeouts]_vars

\* One raw answer of one model of the catalogue, extracted and returned.
InitText ==
    /\ variant \in Variants
    /\ apiKey = TRUE
    /\ consecutiveFailures = 0
    /\ serviceRecoveryAttempts = 0
    /\ CURRENT_MODEL = InitialModel(variant)
    /\ modelSuccessfullyLoaded = FALSE
    /\ sweeps = [k \in 1 .. Len(MODELS(variant)) |-> 0]
    /\ lastSweep = "none"
    /\ timers = 0
    /\ callers = {}
    /\ audit = FALSE
    /\ call = << >>
    /\ InitLimiter
    /\ text \in {[NoText EXCEPT !.pc = "raw", !.rawResponse = r, !.modelName = m] :
                    r \in RawResponses, m \in ModelNames(variant)}

NextText ==
    \/ ExtractStep
    \/ ReturnStep

SpecText == InitText /\ [][NextText]_vars

\* The answer of a model, from the payload to the returned text.
InitPayload ==
    /\ variant \in Variants
    /\ apiKey = TRUE
    /\ consecutiveFailures = 0
    /\ serviceRecoveryAttempts = 0
    /\ CURRENT_MODEL = InitialModel(variant)
    /\ modelSuccessfullyLoaded = FALSE
    /\ sweeps = [k \in 1 .. Len(MODELS(variant)) |-> 0]
    /\ lastSweep = "none"
    /\ timers = 0
    /\ callers = {}
    /\ audit = FALSE
    /\ call = << >>
    /\ InitLimiter
    /\ text \in {[NoText EXCEPT !.pc = "data", !.data = d, !.modelName = m] :
                    d \in Payloads, m \in ModelNames(variant)}

NextPayload ==
    \/ ParseStep
    \/ ExtractStep
    \/ ReturnStep

SpecPayload == InitPayload /\ [][NextPayload]_vars

\* The rate limiter alone: requests of two clients, the clock and the clean-up.
InitRate ==
    /\ InitLimiter
    /\ variant = "mistral"
    /\ apiKey = TRUE
    /\ consecutiveFailures = 0
    /\ serviceRecoveryAttempts = 0
    /\ CURRENT_MODEL = InitialModel(variant)
    /\ modelSuccessfullyLoaded = FALSE
    /\ sweeps = [k \in 1 .. Len(MODELS(variant)) |-> 0]
    /\ lastSweep = "none"
    /\ timers = 0
    /\ callers = {}
    /\ audit = FALSE
    /\ call = << >>
    /\ text = NoText

NextRate ==
    \/ \E ip \in Clients : LimiterRequest(ip)
    \/ Cleanup
    \/ Tick

SpecRate == InitRate /\ [][NextRate]_vars

\* ------------------------------------------------------------ claims
\* A step in which client ip sends a request to the rate limiter.
Requests(ip) == << nth[ip], windowEnd[ip] >> # << nth'[ip], windowEnd'[ip] >>

\* C1: of the requests a client makes inside one window (while now <= the
\* window's reset time), the first RATE_LIMIT are let through and every later
\* one is answered 429, whatever the other clients do.
C1_QuotaPerWindow ==
    \A ip \in Clients :
        decision[ip] # "none" =>
            (decision[ip] = "next" <=> nth[ip] <= RATE_LIMIT)

\* C1 witness: a client's 11th request of a window was denied while the other
\* client, with requests of its own in between, is still let through.
C1_Witness ==
    \E ip \in Clients, other \in Clients :
        /\ other # ip
        /\ nth[ip] = RATE_LIMIT + 1
        /\ decision[ip] = "429"
        /\ previous[ip] = "next"
        /\ nth[other] > 1
        /\ decision[other] = "next"

\* C2: the first request a denied client makes strictly after its window's
\* reset time is let through and opens a new window: count 1, reset time
\* now + RATE_LIMIT_WINDOW.
C2_AdmittedAfterExpiry ==
    [][\A ip \in Clients :
          (decision[ip] = "429" /\ Requests(ip) /\ now > windowEnd[ip]) =>
              /\ decision'[ip] = "next"
              /\ ip \in DOMAIN requestCounts'
              /\ requestCounts'[ip] = [count |-> 1,
                                       resetTime |-> now + RATE_LIMIT_WINDOW]]_vars

\* C2 witness: a client whose last request but one was denied has been let
\* through by the request that opened its next window.
C2_Witness ==
    \E ip \in Clients :
        /\ previous[ip] = "429"
        /\ decision[ip] = "next"
        /\ nth[ip] = 1
        /\ requestCounts[ip].count = 1
        /\ requestCounts[ip].resetTime = now + RATE_LIMIT_WINDOW

\* How a dispatch ended.
Done(c) == call[c].pc = "done" /\ call[c].thrown = ""

Exhausted(c) == call[c].pc = "done" /\ call[c].thrown = AllFailedError

FatalConfigError(c) == call[c].pc = "done" /\ call[c].thrown = MissingKeyError

NumModels == Len(MODELS(variant))

\* C3: a dispatch whose attempts on the models before index k failed and whose
\* attempt on model k succeeded ends Done: the client gets a 200 answer tagged
\* with MODELS[k], and nothing was thrown.
C3_FailoverResult ==
    \A c \in callers :
        Done(c) =>
            /\ call[c].resp.status = 200
            /\ call[c].resp.model_used = MODELS(variant)[call[c].modelIndex + 1]
            /\ call[c].resp.generated_text \in {GeneratedText, ShortFallbackText}

\* C3 witness: a dispatch that went past the first model, which can only happen
\* after every attempt on it failed, ended Done with the second model's answer.
C3_Witness ==
    \E c \in callers :
        /\ Done(c)
        /\ call[c].modelIndex = 1
        /\ call[c].resp.model_used = MODELS(variant)[2]
        /\ CURRENT_MODEL # MODELS(variant)[2]

\* C4: a request whose dispatch ended Exhausted is answered with status 200,
\* the connectivity fallback text and the tag "fallback_response".
C4_ExhaustedAnswered ==
    \A c \in callers :
        Exhausted(c) =>
            call[c].resp = [status |-> 200,
                            generated_text |-> ConnectivityFallbackText(variant),
                            model_used |-> "fallback_response"]

\* C4 witness: a dispatch went through the whole catalog and ended Exhausted.
C4_Witness ==
    \E c \in callers : Exhausted(c) /\ call[c].modelIndex = NumModels - 1

\* C5 as claimed: a dispatch sends at most (number of models) * (retry cap) POSTs.
C5_AttemptsAtMostSumOfCaps ==
    \A c \in callers : call[c].attempts <= NumModels * RetryCap(variant)

\* C5 as amended: a dispatch sends at most (number of models) * (retry cap + 1)
\* POSTs, and once it has thrown (Exhausted) no POST of it is in flight.
C5_AttemptsBounded ==
    \A c \in callers :
        /\ call[c].attempts <= NumModels * (RetryCap(variant) + 1)
        /\ call[c].thrown # "" => call[c].pc = "done"

\* C5 witness: an Exhausted dispatch that sent RetryCap + 1 POSTs to every model.
C5_Witness ==
    \E c \in callers :
        /\ Exhausted(c)
        /\ call[c].attempts = NumModels * (RetryCap(variant) + 1)

\* C6 as claimed, for a server that has its API key: at most one recovery sweep
\* is in flight at any time.
C6_SingleFlight == apiKey => InFlight(sweeps) <= 1

\* A step in which the POST of a dispatch resolved.
DispatchSucceeds ==
    \E c \in callers :
        call[c].pc = "net" /\ call'[c].pc = "done" /\ call'[c].thrown = ""

\* A step in which a health check of a recovery sweep came back with status 200.
ProbeRecovers ==
    InFlight(sweeps') = InFlight(sweeps) - 1 /\ lastSweep' = "recovered"

C8_MissingKeyShortCircuits ==
    /\ [](~apiKey =>
            \A c \in callers :
                /\ call[c].pc \in {"idle", "done"}
                /\ call[c].modelIndex = 0
                /\ call[c].attemptNumber = 0
                /\ call[c].pc = "done" => call[c].thrown = MissingKeyError)
    /\ [][~apiKey =>
            /\ consecutiveFailures' = consecutiveFailures
            /\ CURRENT_MODEL' # CURRENT_MODEL => ProbeRecovers]_vars

\* C8 witness: a dispatch ended FatalConfigError.
C8_Witness ==
    \E c \in callers :
        /\ FatalConfigError(c)
        /\ ~apiKey
        /\ consecutiveFailures = 0
        /\ CURRENT_MODEL = InitialModel(variant)

\* C9 as claimed: a request made without the API key gets an answer that differs
\* from the Exhausted fallback, and no backend is contacted because of it.
C9_MissingKeyDistinctAndQuiet ==
    ~apiKey =>
        /\ InFlight(sweeps) = 0
        /\ \A c \in callers :
              call[c].pc = "done" =>
                  call[c].resp.generated_text # ConnectivityFallbackText(variant)

\* C10: the health checks of a sweep go through the catalog in order, one at a
\* time.  When a check of MODELS[k] comes back with status 200, CURRENT_MODEL
\* becomes MODELS[k], consecutiveFailures and serviceRecoveryAttempts become 0
\* and the sweep sends no further check; when it fails, the three are left alone
\* and the sweep checks MODELS[k+1], or ends after the last model.
C10_FirstHealthyModelWins ==
    [][/\ \A k \in 1 .. NumModels :
            sweeps'[k] < sweeps[k] =>
                \/ /\ lastSweep' = "recovered"
                   /\ CURRENT_MODEL' = MODELS(variant)[k]
                   /\ consecutiveFailures' = 0
                   /\ serviceRecoveryAttempts' = 0
                   /\ sweeps' = [sweeps EXCEPT ![k] = @ - 1]
                \/ /\ UNCHANGED << CURRENT_MODEL, consecutiveFailures,
                                   serviceRecoveryAttempts >>
                   /\ IF k < NumModels
                      THEN /\ sweeps' = [sweeps EXCEPT ![k] = @ - 1, ![k + 1] = @ + 1]
                           /\ UNCHANGED lastSweep
                      ELSE /\ sweeps' = [sweeps EXCEPT ![k] = @ - 1]
                           /\ lastSweep' = "failed"
       /\ \A k \in 2 .. NumModels :
            sweeps'[k] > sweeps[k] => sweeps'[k - 1] < sweeps[k - 1]]_vars

\* C10 witness: a dispatch had moved CURRENT_MODEL past the first model, and the
\* only sweep, answered by the first model, set CURRENT_MODEL back to it and
\* both counters to 0.
C10_Witness ==
    \E c \in callers :
        /\ call[c].pc = "wait"
        /\ call[c].modelIndex >= 1
        /\ lastSweep = "recovered"
        /\ InFlight(sweeps) = 0
        /\ CURRENT_MODEL = MODELS(variant)[1]
        /\ consecutiveFailures = 0
        /\ serviceRecoveryAttempts = 0

\* C15: the waits of one dispatch after busy answers of the same model grow
\* strictly from one to the next, and none is longer than maxDelay.
C15_BackoffMonotonic ==
    \A c \in callers :
        (call[c].pc = "wait" /\ call[c].err = "busy") =>
            /\ call[c].delay > call[c].lastBusy
            /\ call[c].delay <= maxDelay
            /\ call[c].attemptNumber <= RetryCap(variant)

\* C15 witness: the wait after the last busy answer the retry cap allows, longer
\* than the wait before it.
C15_Witness ==
    \E c \in callers :
        /\ call[c].pc = "wait"
        /\ call[c].err = "busy"
        /\ call[c].attemptNumber = RetryCap(variant)
        /\ call[c].lastBusy > 0
        /\ call[c].delay > call[c].lastBusy

\* C19: after a busy answer of model i at attempt a, the next POST goes to the
\* same model with attempt a + 1 when a is below the retry cap, and to model
\* i + 1 with attempt 0 when a is the cap (the dispatch ends when there is no
\* model i + 1); no POST is sent with an attempt number above the cap.
C19_BusyRetryThenFailover ==
    /\ [](\A c \in callers : call[c].attemptNumber <= RetryCap(variant))
    /\ [][\A c \in callers :
            (call[c].pc = "wait" /\ call[c].err = "busy" /\ call'[c] # call[c]) =>
                IF call[c].attemptNumber < RetryCap(variant)
                THEN /\ call'[c].pc = "net"
                     /\ call'[c].modelIndex = call[c].modelIndex
                     /\ call'[c].attemptNumber = call[c].attemptNumber + 1
                ELSE IF call[c].modelIndex + 1 < NumModels
                THEN /\ call'[c].pc = "net"
                     /\ call'[c].modelIndex = call[c].modelIndex + 1
                     /\ call'[c].attemptNumber = 0
                ELSE call'[c].pc = "done" /\ call'[c].thrown = AllFailedError]_vars

\* C19 witness: a first attempt on the second model, reached from a busy answer
\* of the first model at the retry cap.
C19_Witness ==
    \E c \in callers :
        /\ call[c].pc = "net"
        /\ call[c].modelIndex = 1
        /\ call[c].attemptNumber = 0
        /\ modelSuccessfullyLoaded = FALSE
        /\ consecutiveFailures = RetryCap(variant) + 1

\* C20 as claimed: the wait after a busy answer at attempt a is
\* min(baseDelay * 2^a, maxDelay).
C20_BackoffFromBase ==
    \A c \in callers :
        (call[c].pc = "wait" /\ call[c].err = "busy") =>
            call[c].delay = Min(baseDelay * Pow2(call[c].attemptNumber), maxDelay)

\* C20 as amended: the wait after a busy answer at attempt a is
\* min(baseDelay * 2^(a + 1), maxDelay): 4000, 8000, 16000 and (OPT variant,
\* a = 3) 30000 ms.
C20_BackoffFromTwiceBase ==
    \A c \in callers :
        (call[c].pc = "wait" /\ call[c].err = "busy") =>
            /\ call[c].delay = Min(baseDelay * Pow2(call[c].attemptNumber + 1), maxDelay)
            /\ call[c].delay = << 4000, 8000, 16000, 30000 >>[call[c].attemptNumber + 1]

\* C20 witness: the capped wait after the fourth busy answer of a model.
C20_Witness ==
    \E c \in callers :
        /\ call[c].pc = "wait"
        /\ call[c].err = "busy"
        /\ call[c].attemptNumber = 3
        /\ call[c].delay = maxDelay

\* Some dispatch awaits an answer or a wait.
InProgress == \E c \in callers : call[c].pc \in {"net", "wait"}

\* Every dispatch has ended, each in exactly one of the three ways.
Terminated ==
    \A c \in callers :
        /\ call[c].pc = "done"
        /\ Cardinality({t \in {"Done", "Exhausted", "FatalConfigError"} :
                            \/ t = "Done" /\ Done(c)
                            \/ t = "Exhausted" /\ Exhausted(c)
                            \/ t = "FatalConfigError" /\ FatalConfigError(c)}) = 1

\* C17: when every POST is answered and every wait ends, a dispatch ends, as
\* exactly one of Done, Exhausted and FatalConfigError; the pair (modelIndex,
\* attemptNumber) grows lexicographically from each failed attempt to the next
\* attempt and stays within the catalogue and the retry cap.
C17_Terminates ==
    /\ InProgress ~> Terminated
    /\ [](\A c \in callers : call[c].pc = "net" =>
              /\ call[c].modelIndex < NumModels
              /\ call[c].attemptNumber <= RetryCap(variant))
    /\ [][\A c \in callers :
            (call[c].pc = "wait" /\ call'[c].pc = "net") =>
                \/ call'[c].modelIndex > call[c].modelIndex
                \/ /\ call'[c].modelIndex = call[c].modelIndex
                   /\ call'[c].attemptNumber > call[c].attemptNumber]_vars

\* C17 witness: a dispatch that ended Exhausted after the last model was busy
\* on every attempt the retry cap allows.
C17_Witness ==
    \E c \in callers :
        /\ Terminated
        /\ Exhausted(c)
        /\ call[c].lastBusy > 0
        /\ call[c].attemptNumber = RetryCap(variant)

\* The failed POSTs of dispatch c so far.
Failures(c) == IF call[c].pc = "net" THEN call[c].attempts - 1 ELSE call[c].attempts

\* C16: when every POST times out, a dispatch sends exactly one POST to each
\* model, in catalogue order, and ends Exhausted with the route's fallback
\* answer; each of its failures adds one to consecutiveFailures, so that a
\* whole dispatch adds exactly the length of the catalogue.
C16_AllTimeouts ==
    \A c \in callers :
        /\ consecutiveFailures >= Failures(c)
        /\ (consecutiveFailures - Failures(c)) % NumModels = 0
        /\ call[c].pc \in {"net", "wait"} =>
              /\ call[c].attemptNumber = 0
              /\ call[c].modelIndex = call[c].attempts - 1
        /\ call[c].pc = "done" =>
              /\ Exhausted(c)
              /\ call[c].attempts = NumModels
              /\ call[c].resp = FallbackResponse(variant)

\* C16 witness: the first dispatch ended after one timed-out POST per model;
\* consecutiveFailures went from 0 to the length of the catalogue.
C16_Witness ==
    \E c \in callers :
        /\ Exhausted(c)
        /\ call[c].attempts = NumModels
        /\ consecutiveFailures = NumModels
        /\ call[c].resp.model_used = "fallback_response"

\* A warm-up request that has been answered.
WarmedUp(c) == call[c].route = "warmup" /\ call[c].pc = "done"

Dispatched(c) == call[c].pc \in {"net", "wait", "done"} /\ apiKey

\* A step in which the request of dispatch c is let through by the rate limiter.
Admitted(c) ==
    /\ call'[c] # call[c]
    /\ call'[c].pc \in {"rejected", "net", "done"}
    /\ \E ip \in RouteClients : Requests(ip) /\ decision'[ip] = "next"

\* C11 as claimed: only inputs shorter than MaxInputLength are dispatched.
C11_DispatchedBelowLimit ==
    \A c \in callers :
        Dispatched(c) => call[c].inputs.given /\ call[c].inputs.len \in 1 .. MaxInputLength - 1

\* C11 as amended: a request that the rate limiter lets through is answered
\* 400 without a dispatch, a POST or a change of the dispatcher's state when
\* its inputs are missing, empty or longer than MaxInputLength, and is
\* dispatched otherwise; a text of exactly MaxInputLength characters is
\* dispatched.
C11_RejectedUnlessWithinLimit ==
    [][\A c \in callers :
         Admitted(c) =>
            IF \/ ~call'[c].inputs.given
               \/ call'[c].inputs.len = 0
               \/ call'[c].inputs.len > MaxInputLength
            THEN /\ call'[c].pc = "rejected"
                 /\ call'[c].resp.status = 400
                 /\ call'[c].error = IF call'[c].inputs.given /\ call'[c].inputs.len > 0
                                     THEN "Input too long" ELSE "Bad Request"
                 /\ call'[c].attempts = 0
                 /\ UNCHANGED << CURRENT_MODEL, consecutiveFailures, modelSuccessfullyLoaded,
                                 serviceRecoveryAttempts, sweeps, timers >>
            ELSE call'[c].pc # "rejected"]_vars

\* C11 witness: a request with inputs of exactly MaxInputLength characters has
\* been dispatched.
C11_Witness ==
    \E c \in callers :
        /\ Dispatched(c)
        /\ call[c].pc = "net"
        /\ call[c].inputs.len = MaxInputLength

\* C12: a request that the rate limiter denies is answered 429 'Rate limit
\* exceeded' in the same step, whatever its inputs are; it sends no POST and
\* leaves the failure counter, the recovery counter, the current model, the
\* sweeps and the timers as they were.
C12_DeniedIsAnsweredAtOnce ==
    [][\A c \in callers, ip \in RouteClients :
         (Requests(ip) /\ decision'[ip] = "429") =>
            /\ call'[c].pc = "rejected"
            /\ call'[c].error = "Rate limit exceeded"
            /\ call'[c].resp.status = 429
            /\ UNCHANGED << CURRENT_MODEL, consecutiveFailures, modelSuccessfullyLoaded,
                            serviceRecoveryAttempts, sweeps, lastSweep, timers >>]_vars

\* C12 witness: a denied request without inputs, answered 429 and not 400,
\* while the failure counter is not zero.
C12_Witness ==
    \E c \in callers :
        /\ call[c].pc = "rejected"
        /\ call[c].error = "Rate limit exceeded"
        /\ ~call[c].inputs.given
        /\ consecutiveFailures > 0

\* The text extractModelResponse has returned for the raw answer.
Extracted == text.pc \in {"extracted", "returned"}

\* C13: in part_000, when the cleaned text of a raw answer has fewer than
\* MinCleanedLength characters, extractModelResponse returns its fixed text and
\* not the cleaned text, so every text it returns has at least that length; in
\* both variants the generated_text of a result is never shorter than the
\* variant's minimum (15, 20): a shorter text is replaced by ShortFallbackText.
C13_ShortTextReplaced ==
    /\ (Extracted /\ variant = "mistral") =>
          /\ Length(text.extracted) >= MinCleanedLength
          /\ Len(text.rawResponse) >= 1 =>
                IF Len(Cleaned(text.rawResponse, text.modelName)) < MinCleanedLength
                THEN SameText(text.extracted, Fixed(NeedMoreDetailText))
                ELSE SameText(text.extracted, Free(Cleaned(text.rawResponse, text.modelName)))
    /\ text.pc = "returned" =>
          /\ Length(text.generated) >= MinResultLength(variant)
          /\ Length(text.extracted) < MinResultLength(variant) =>
                SameText(text.generated, Fixed(ShortFallbackText))

\* C13 witness: a raw answer of part_000 whose cleaned text is short and not
\* empty has been answered with the fixed text.
C13_Witness ==
    /\ text.pc = "returned"
    /\ variant = "mistral"
    /\ Len(Cleaned(text.rawResponse, text.modelName)) \in 1 .. MinCleanedLength - 1
    /\ SameText(text.extracted, Fixed(NeedMoreDetailText))
    /\ SameText(text.generated, text.extracted)

\* The raw answers "A: " + body.
Labelled(body) == << "A", ":", " " >> \o body

\* C14 as claimed: the raw answer "A: ok" is normalized to "ok".
C14_LabelStrippedFromOk ==
    (Extracted /\ text.rawResponse = Labelled(<< "o", "k" >>)) =>
        SameText(text.extracted, Free(<< "o", "k" >>))

\* C14 as amended: part_000 strips the label `A:` on every model and returns
\* the rest when it has at least 10 characters, its fixed text otherwise
\* ("A: ok" gives the fixed text); the OPT variant strips the label on its
\* opt and flan-t5 models and returns the rest whatever its length ("A: ok"
\* gives "ok", which the dispatch replaces by ShortFallbackText).
C14_LabelStrippedRestGated ==
    \A body \in PlainBodies :
        (Extracted /\ text.rawResponse = Labelled(body)) =>
            IF variant = "mistral"
            THEN SameText(text.extracted, IF Len(body) >= MinCleanedLength THEN Free(body)
                                          ELSE Fixed(NeedMoreDetailText))
            ELSE /\ ModelFamily(text.modelName) \in {"opt", "flan-t5"} =>
                        SameText(text.extracted, Free(body))
                 /\ ModelFamily(text.modelName) \notin {"opt", "flan-t5"} =>
                        SameText(text.extracted, Free(Labelled(body)))
                 /\ (text.pc = "returned" /\ body = << "o", "k" >>) =>
                        SameText(text.generated, Fixed(ShortFallbackText))

\* C14 witness: part_000 has answered the raw answer "A: ok" with its fixed text.
C14_Witness ==
    /\ text.pc = "extracted"
    /\ variant = "mistral"
    /\ text.rawResponse = Labelled(<< "o", "k" >>)
    /\ SameText(text.extracted, Fixed(NeedMoreDetailText))

\* C21: after a timeout or another failure that is not a busy answer, the next
\* POST of the dispatch goes to the next model with attemptNumber 0 (the
\* dispatch ends when there is none); the model index of a dispatch never
\* goes down, so the failed model is not contacted again.
C21_NoRetryAfterTimeoutOrOther ==
    [][\A c \in callers :
         (call[c].pc = "wait" /\ call'[c] # call[c]) =>
            /\ call'[c].pc = "net" => call'[c].modelIndex >= call[c].modelIndex
            /\ call[c].err \in {"timeout", "other"} =>
                  IF call[c].modelIndex + 1 < NumModels
                  THEN /\ call'[c].pc = "net"
                       /\ call'[c].modelIndex = call[c].modelIndex + 1
                       /\ call'[c].attemptNumber = 0
                  ELSE call'[c].pc = "done" /\ call'[c].thrown = AllFailedError]_vars

\* C21 witness: the second model fails with an error of the third kind on its
\* first attempt, after one failure of the first model.
C21_Witness ==
    \E c \in callers :
        /\ call[c].pc = "wait"
        /\ call[c].err = "other"
        /\ call[c].modelIndex = 1
        /\ call[c].attemptNumber = 0
        /\ consecutiveFailures = 2
        /\ modelSuccessfullyLoaded = FALSE

AttemptFails(c) == call[c].pc = "net" /\ call'[c].pc = "wait"

\* A step in which attemptServiceRecovery() is called.
RecoveryCalled ==
    << serviceRecoveryAttempts, sweeps, timers >>
        # << serviceRecoveryAttempts', sweeps', timers' >>

C24_ShortAnswerIsSuccess ==
    /\ [][\A c \in callers :
            (call[c].pc = "net" /\ call'[c].pc = "done"
                /\ call'[c].resp.generated_text = ShortFallbackText) =>
                /\ Done(c)'
                /\ call'[c].resp.status = 200
                /\ call'[c].resp.model_used = MODELS(variant)[call[c].modelIndex + 1]
                /\ call'[c].modelIndex = call[c].modelIndex
                /\ call'[c].attemptNumber = call[c].attemptNumber
                /\ consecutiveFailures' = 0
                /\ modelSuccessfullyLoaded']_vars
    /\ [][\A c \in callers :
            (Done(c) /\ call'[c].pc \in {"net", "wait"}) =>
                call'[c].modelIndex = 0 /\ call'[c].attemptNumber = 0]_vars

\* C24 witness: after failures, the second model gave a too short answer; the
\* dispatch is Done with the fixed text and the counter is 0.
C24_Witness ==
    \E c \in callers :
        /\ Done(c)
        /\ call[c].resp.generated_text = ShortFallbackText
        /\ call[c].modelIndex = 1
        /\ call[c].resp.model_used = MODELS(variant)[2]
        /\ consecutiveFailures = 0
        /\ lastSweep = "none"

\* C25: the step in which a generate request's dispatch ends Exhausted answers
\* with the fallback and calls attemptServiceRecovery(), whatever the value of
\* consecutiveFailures: a sweep starts, or, with serviceRecoveryAttempts above
\* RecoveryCap, the timer is set.
C25_ExhaustedCallsRecovery ==
    [][\A c \in callers :
         (call[c].pc # "done" /\ Exhausted(c)' /\ call'[c].route = "generate") =>
            /\ call'[c].resp = FallbackResponse(variant)
            /\ RecoveryCalled
            /\ IF serviceRecoveryAttempts > RecoveryCap
               THEN timers' = timers + 1 /\ UNCHANGED << sweeps, serviceRecoveryAttempts >>
               ELSE /\ serviceRecoveryAttempts' = serviceRecoveryAttempts + 1
                    /\ InFlight(sweeps') = InFlight(sweeps) + 1
                    /\ UNCHANGED timers]_vars

\* C25 witness: a dispatch ended Exhausted after four failures, below
\* MAX_CONSECUTIVE_FAILURES, and the first sweep is in flight.
C25_Witness ==
    \E c \in callers :
        /\ Exhausted(c)
        /\ consecutiveFailures = 4
        /\ consecutiveFailures < MAX_CONSECUTIVE_FAILURES
        /\ serviceRecoveryAttempts = 1
        /\ InFlight(sweeps) = 1
        /\ lastSweep = "none"

\* A step in which a dispatch or its route calls attemptServiceRecovery().
CalledByDispatch == RecoveryCalled /\ \E c \in callers : call'[c] # call[c]

\* A step in which the callback of a recovery timer runs.
TimerFires == timers' < timers

\* C26 as claimed: a call that finds serviceRecoveryAttempts above RecoveryCap
\* sends no health check, sets the counter to 0 and sets one timer.
C26_PauseResetsCount ==
    [][(CalledByDispatch /\ serviceRecoveryAttempts > RecoveryCap) =>
          /\ sweeps' = sweeps
          /\ serviceRecoveryAttempts' = 0
          /\ timers' = timers + 1]_vars

\* C26 as amended: a call that finds serviceRecoveryAttempts above RecoveryCap
\* sends no health check, leaves the counter as it is and sets one timer; the
\* timer's callback, RecoveryCooldown later, sets the counter to 0 and calls
\* attemptServiceRecovery() again.  A call that finds the counter at or below
\* RecoveryCap adds one to it and sends its first health check.
C26_PauseKeepsCount ==
    [][/\ CalledByDispatch =>
            IF serviceRecoveryAttempts > RecoveryCap
            THEN /\ sweeps' = sweeps
                 /\ serviceRecoveryAttempts' = serviceRecoveryAttempts
                 /\ timers' = timers + 1
            ELSE /\ sweeps' = [sweeps EXCEPT ![1] = @ + 1]
                 /\ serviceRecoveryAttempts' = serviceRecoveryAttempts + 1
                 /\ timers' = timers
       /\ TimerFires =>
            /\ timers' = timers - 1
            /\ serviceRecoveryAttempts' = 1
            /\ sweeps' = [sweeps EXCEPT ![1] = @ + 1]]_vars

\* C26 witness: a timer is pending and the counter is still above RecoveryCap.
C26_Witness ==
    /\ timers > 0
    /\ serviceRecoveryAttempts > RecoveryCap
    /\ serviceRecoveryAttempts = 4

\* A step in which an awaited health check of some sweep settles.
ProbeStep == sweeps' # sweeps /\ InFlight(sweeps') <= InFlight(sweeps)

\* The health check that settles in this step did not answer with status 200.
ProbeStepFails == ProbeStep /\ ~(lastSweep' = "recovered" /\ InFlight(sweeps') < InFlight(sweeps))

\* C27: a sweep starts at the first model of the catalog; a health check of
\* MODELS[k] that does not answer 200 is followed by the health check of
\* MODELS[k + 1] of the same sweep, and after the last model the sweep ends
\* as failed; none of these steps changes consecutiveFailures, CURRENT_MODEL,
\* modelSuccessfullyLoaded or serviceRecoveryAttempts (which keeps the value
\* it was given when the sweep started).
C27_FailedSweepChangesNothing ==
    [][/\ InFlight(sweeps') > InFlight(sweeps) => sweeps' = [sweeps EXCEPT ![1] = @ + 1]
       /\ ProbeStepFails =>
            /\ \E k \in 1 .. NumModels :
                 /\ sweeps[k] > 0
                 /\ IF k < NumModels
                    THEN /\ sweeps' = [sweeps EXCEPT ![k] = @ - 1, ![k + 1] = @ + 1]
                         /\ lastSweep' = lastSweep
                    ELSE /\ sweeps' = [sweeps EXCEPT ![k] = @ - 1]
                         /\ lastSweep' = "failed"
            /\ UNCHANGED << consecutiveFailures, CURRENT_MODEL, modelSuccessfullyLoaded,
                            serviceRecoveryAttempts, timers, call >>]_vars

\* C27 witness: the only sweep so far has ended as failed; the failure count
\* that called it and the incremented counter are as they were when it
\* started, and the current model is not the last one the sweep contacted.
C27_Witness ==
    /\ lastSweep = "failed"
    /\ InFlight(sweeps) = 0
    /\ serviceRecoveryAttempts = 1
    /\ consecutiveFailures = MAX_CONSECUTIVE_FAILURES
    /\ CURRENT_MODEL # MODELS(variant)[NumModels]
    /\ modelSuccessfullyLoaded = FALSE

\* C28: a dispatch whose failed attempt called attemptServiceRecovery() is in
\* its own wait, and the end of that wait does not depend on the sweeps in
\* flight: the next attempt (or the end of the dispatch) can always follow; a
\* health check that settles, and a recovery timer that fires, change no
\* dispatch (its modelIndex, attemptNumber or anything else) and no entry of
\* requestCounts.
C28_DispatchNotSuspended ==
    /\ [](\A c \in callers :
            (call[c].pc = "wait" /\ HasRoom(serviceRecoveryAttempts, sweeps, timers)) =>
                ENABLED WaitDone(c))
    /\ [][(ProbeStep \/ TimerFires) => UNCHANGED << call, requestCounts >>]_vars

\* C28 witness: a dispatch whose fifth failure started the only sweep has
\* ended Done on a later attempt while that sweep still awaits a health check.
C28_Witness ==
    \E c \in callers :
        /\ Done(c)
        /\ call[c].modelIndex > 0
        /\ consecutiveFailures = 0
        /\ InFlight(sweeps) = 1
        /\ serviceRecoveryAttempts = 1
        /\ lastSweep = "none"

\* C29: the stored count of a client is the number of requests the client has
\* made in its window, the denied ones included, and the stored reset time is
\* the one the window's first request set; a denied request adds one to the
\* count and leaves the reset time as it is.
C29_DeniedIsCounted ==
    /\ [](\A ip \in DOMAIN requestCounts :
            /\ nth[ip] >= 1
            /\ requestCounts[ip].count = nth[ip]
            /\ requestCounts[ip].resetTime = windowEnd[ip]
            /\ decision[ip] = "429" <=> nth[ip] > RATE_LIMIT)
    /\ [][\A ip \in Clients :
            (Requests(ip) /\ decision'[ip] = "429") =>
                /\ ip \in DOMAIN requestCounts
                /\ requestCounts'[ip].count = requestCounts[ip].count + 1
                /\ requestCounts'[ip].resetTime = requestCounts[ip].resetTime]_vars

\* C29 witness: a client's second denied request of a window has been counted.
C29_Witness ==
    \E ip \in DOMAIN requestCounts :
        /\ decision[ip] = "429"
        /\ previous[ip] = "429"
        /\ requestCounts[ip].count = RATE_LIMIT + 2
        /\ now > 0

\* A step of the clean-up that deletes at least one entry.
CleanupStep == requestCounts' # requestCounts /\ \A ip \in Clients : ~Requests(ip)

\* C30: the clean-up deletes exactly the entries whose resetTime is before
\* now and leaves every other entry as it is; the next request of a client
\* whose entry is gone starts a window: count 1, resetTime now +
\* RATE_LIMIT_WINDOW, and next() is called.
C30_CleanupThenFirstRequest ==
    /\ [](LET kept == {ip \in DOMAIN requestCounts : ~(requestCounts[ip].resetTime < now)}
          IN  /\ DOMAIN cleanup(requestCounts, now) = kept
              /\ \A ip \in kept : cleanup(requestCounts, now)[ip] = requestCounts[ip])
    /\ [][/\ CleanupStep =>
               /\ DOMAIN requestCounts' =
                      {ip \in DOMAIN requestCounts : ~(requestCounts[ip].resetTime < now)}
               /\ \A ip \in DOMAIN requestCounts' : requestCounts'[ip] = requestCounts[ip]
          /\ \A ip \in Clients :
               (Requests(ip) /\ ip \notin DOMAIN requestCounts) =>
                   /\ requestCounts'[ip] = [count |-> 1, resetTime |-> now + RATE_LIMIT_WINDOW]
                   /\ decision'[ip] = "next"]_vars

\* C30 witness: the entry of a client that was denied is gone, and the entry of
\* the other client, whose resetTime is now, is still there.
C30_Witness ==
    \E ip \in Clients, other \in DOMAIN requestCounts :
        /\ ip \notin DOMAIN requestCounts
        /\ decision[ip] = "429"
        /\ nth[ip] > RATE_LIMIT
        /\ requestCounts[other].resetTime = now
        /\ requestCounts[other].count = 2

\* The payload has one of the three shapes and its continuation is the empty text.
EmptyContinuation(data) ==
    \/ data.type = "array" /\ Len(data.items) > 0 /\ data.items[1] = Object(TRUE, << >>)
    \/ data.type = "object" /\ data.object = Object(TRUE, << >>)
    \/ data.type = "string" /\ data.value = << >>

\* C31: the answer returned for a payload of one of the three shapes whose
\* continuation is empty is the fixed "could not generate" text, and
\* rawResponse is a JSON.stringify text only for a payload of another shape.
C31_EmptyContinuationIsFallback ==
    /\ (text.pc = "returned" /\ EmptyContinuation(text.data)) =>
          SameText(text.generated, Fixed(CouldNotGenerateText))
    /\ (text.pc \in {"raw", "extracted", "returned"}
            /\ text.data.type \in {"array", "object", "string"}) =>
          text.rawResponse = ShapeText(text.data)

\* C32: a request whose inputs passed the input checks is formatted without
\* an exception for every model: each of its attempts sends its POST, so that
\* consecutiveFailures grows only in a step of a dispatch whose POST was
\* rejected.
C32_FormatNeverFails ==
    [][/\ consecutiveFailures' > consecutiveFailures => \E c \in callers : call[c].pc = "net"
       /\ \A c \in callers :
            (call'[c] # call[c] /\ call'[c].pc = "wait") => call[c].pc = "net"]_vars

\* The position of dispatch c: its model index and its attempt number.
Position(c) == << call[c].modelIndex, call[c].attemptNumber >>

C34_AttemptsInRange ==
    /\ [](serviceRecoveryAttempts \in 0 .. RecoveryCap + 1)
    /\ [][serviceRecoveryAttempts' > serviceRecoveryAttempts =>
             /\ serviceRecoveryAttempts <= RecoveryCap
             /\ serviceRecoveryAttempts' = serviceRecoveryAttempts + 1]_vars

\* C34 witness: the call that found the counter at RecoveryCap has raised it to
\* RecoveryCap + 1 and its sweep is in flight.
C34_Witness ==
    /\ serviceRecoveryAttempts = RecoveryCap + 1
    /\ InFlight(sweeps) > 0
    /\ timers = 0

\* C35: at most one recovery timer is pending: a call of
\* attemptServiceRecovery() that finds the counter above RecoveryCap while a
\* timer is pending sets no further timer.
C35_OneTimerPending ==
    /\ [](timers <= 1)
    /\ [][(serviceRecoveryAttempts > RecoveryCap /\ timers > 0) => timers' <= timers]_vars

\* C36: every request to the generate route is counted by the rate limiter
\* before its inputs are looked at: the stored count of a client is the number
\* of its requests in the window, those answered 400 included, and a request
\* is answered 429 exactly when it is at least the (RATE_LIMIT + 1)-th of the
\* window, whether its inputs are valid or not.
C36_InvalidRequestsCount ==
    /\ [](\A ip \in DOMAIN requestCounts : requestCounts[ip].count = nth[ip])
    /\ [][\A c \in callers :
            (call[c].pc \in {"idle", "done", "rejected"} /\ call'[c] # call[c]) =>
                \E ip \in RouteClients :
                    /\ Requests(ip)
                    /\ requestCounts'[ip].count = nth'[ip]
                    /\ call'[c].error = "Rate limit exceeded" <=> nth'[ip] > RATE_LIMIT]_vars

\* C36 witness: with the API key set, no request has been dispatched so far
\* (no model has answered, no failure was counted), so the RATE_LIMIT requests
\* before this one were all answered 400; this one, the (RATE_LIMIT + 1)-th of
\* the window, has valid inputs and is answered 429.
C36_Witness ==
    \E c \in callers, ip \in RouteClients :
        /\ apiKey
        /\ ~modelSuccessfullyLoaded
        /\ consecutiveFailures = 0
        /\ ip \in DOMAIN requestCounts
        /\ requestCounts[ip].count = RATE_LIMIT + 1
        /\ call[c].pc = "rejected"
        /\ call[c].resp.status = 429
        /\ validate(call[c].inputs) = "ok"

\* A step in which dispatch c sends a POST: an attempt starts.
AttemptStarts(c) == call[c].pc # "net" /\ call'[c].pc = "net"

\* A step in which a health check answers 200.
ProbeStepRecovers ==
    ProbeStep /\ lastSweep' = "recovered" /\ InFlight(sweeps') < InFlight(sweeps)

\* A step in which dispatch c ends Exhausted.
EndsExhausted(c) == call[c].pc = "wait" /\ Exhausted(c)'

\* CURRENT_MODEL is written by the start of every attempt and by every health
\* check that answers 200, with the model each of them contacted, and by
\* nothing else; a request's first attempt goes to MODELS[0], whatever
\* CURRENT_MODEL is.
CurrentModelFollows ==
    /\ \A c \in callers :
         AttemptStarts(c) => CURRENT_MODEL' = MODELS(variant)[call'[c].modelIndex + 1]
    /\ ProbeStepRecovers =>
         \E k \in 1 .. NumModels :
             sweeps'[k] = sweeps[k] - 1 /\ CURRENT_MODEL' = MODELS(variant)[k]
    /\ CURRENT_MODEL' # CURRENT_MODEL =>
         ProbeStepRecovers \/ \E c \in callers : AttemptStarts(c)
    /\ \A c \in callers :
         (call[c].pc \in {"idle", "done"} /\ AttemptStarts(c)) =>
             /\ call'[c].modelIndex = 0
             /\ CURRENT_MODEL' = MODELS(variant)[1]

====
